---- MODULE Spec2Model ----
(***************************************************************************)
(* Memory & identity store of hcbot: the SQLite schema lifecycle           *)
(* (server/db/core.mjs), the profiles and memories repositories            *)
(* (server/db/profiles.mjs, server/db/memories.mjs), the memory routes     *)
(* (server/routes/business/memoryRoutes.mjs) and the consolidation pass.   *)
(*                                                                         *)
(* proc  : the module-level variables of one Node process                  *)
(* db    : the SQLite database file (schema shape and rows)                *)
(* env   : SQLITE_VECTOR_EXTENSION_PATH as seen by the process             *)
(* now   : unixepoch(), in seconds                                         *)
(* pass  : the consolidation request in flight (an async handler)          *)
(* last  : the operation that ran last and what it returned                *)
(* uuid  : how many ids crypto.randomUUID() has handed out                 *)
(***************************************************************************)
EXTENDS Integers, Sequences, FiniteSets, TLC

VARIABLES proc, db, env, now, pass, last, restarts, uuid

vars == <<proc, db, env, now, pass, last, restarts, uuid>>

(***************************************************************************)
(* Bounds of the model                                                      *)
(***************************************************************************)
MaxInserts == 2
MaxTicks == 2
MaxRestarts == 1
MaxInitRuns == 2
MaxStoreInserts == 3

(***************************************************************************)
(* Program constants                                                        *)
(***************************************************************************)
minImportance == 1
maxImportance == 10
defaultImportance == 5
DaySeconds == 86400
TickSeconds == DaySeconds

NULL == "NULL"
\* a nullable integer column is a sequence of length <= 1: <<>> is SQL NULL
NullInt == << >>
defaultTtlDays == NullInt

Trips == {"abc", "u2"}
Rooms == {"r1"}

\* the element of a singleton set: The({F(x) : x \in {e}}) is F(e) with e
\* evaluated once
The(S) == CHOOSE x \in S : TRUE

Max(a, b) == IF a >= b THEN a ELSE b
Min(a, b) == IF a <= b THEN a ELSE b

(***************************************************************************)
(* External numeric input.  A request value is either not a finite number  *)
(* (absent, "abc", NaN), the JSON null, or a number, kept in halves so     *)
(* that Math.floor has something to do: Num(15) is 7.5.                    *)
(***************************************************************************)
NaN == [kind |-> "nan"]
Num(halves) == [kind |-> "num", halves |-> halves]
IsFinite(raw) == raw.kind = "num"
Floor(raw) == raw.halves \div 2

\* null as the value of a key of a JSON body
JsNull == [kind |-> "null"]

\* Number(value): undefined and text that is no number give NaN, null gives 0
ToNumber(value) == IF value.kind = "null" THEN Num(0) ELSE value

Int2Raw(n) == Num(2 * n)

\* a number too large for a double (1e999 in a JSON body, "Infinity" as text)
PosInfinity == [kind |-> "inf", sign |-> 1]
NegInfinity == [kind |-> "inf", sign |-> -1]

\* helpers.mjs toImportanceThreshold; the fallback is returned as it is given
toImportanceThreshold_NoLowerClamp(rawValue, fallback) ==
    LET value == ToNumber(rawValue)
    IN IF ~IsFinite(value) THEN fallback
       ELSE Int2Raw(Min(maxImportance, Floor(value)))

toImportanceThreshold(rawValue, fallback) ==
    LET value == ToNumber(rawValue)
    IN IF ~IsFinite(value) THEN fallback
       ELSE Int2Raw(Max(minImportance, Min(maxImportance, Floor(value))))

\* memoryRoutes.mjs POST /api/memories, importance
RouteImportance_NoUpperClamp(raw) ==
    LET importanceValue == ToNumber(raw)
    IN IF IsFinite(importanceValue) THEN Max(minImportance, Floor(importanceValue))
       ELSE defaultImportance

RouteImportance(raw) ==
    LET importanceValue == ToNumber(raw)
    IN IF IsFinite(importanceValue)
       THEN Max(minImportance, Min(maxImportance, Floor(importanceValue)))
       ELSE defaultImportance

\* memoryRoutes.mjs POST /api/memories, ttl_days
RouteTtlDays(raw) ==
    LET ttlValue == ToNumber(raw)
    IN IF IsFinite(ttlValue) THEN << Max(1, Floor(ttlValue)) >> ELSE defaultTtlDays

\* Math.floor(Number(x) || minImportance) clamped: the repository's own clamp
BoundedImportance(raw) ==
    LET n == IF IsFinite(raw) /\ raw.halves # 0 THEN Floor(raw) ELSE minImportance
    IN Max(minImportance, Min(maxImportance, n))

(***************************************************************************)
(* The process: module-level state of core.mjs, profiles.mjs, memories.mjs *)
(***************************************************************************)
FreshProc ==
    [ vectorMode |-> "none",
      vectorExtensionTried |-> FALSE,
      dbInitialized |-> FALSE,
      started |-> "no",
      profPrepared |-> FALSE,
      memPrepared |-> FALSE,
      extLoads |-> 0,
      initRuns |-> 0,
      migrations |-> 0 ]

(***************************************************************************)
(* The database file                                                        *)
(***************************************************************************)
Mem(id, room, trip, imp, ttl, created) ==
    [ memory_id |-> id, room_id |-> room, trip_code |-> trip,
      importance |-> imp, ttl_days |-> ttl,
      created_at |-> created, last_used_at |-> created ]

EmptyFn == [x \in {} |-> 0]

\* the JSON text '{}' (column default) and a column the table does not have
EmptyObject == [json |-> "{}"]
NoColumn == [json |-> "no column"]

\* CREATE TABLE memories of db/core.mjs: room_id nullable, CHECK 1..10
CurrentMemoriesTable ==
    [exists |-> TRUE, room_notnull |-> FALSE, importance_check |-> "1..10"]
\* CREATE TABLE memories of the earlier data layer: room_id NOT NULL, no CHECK
LegacyMemoriesTable ==
    [exists |-> TRUE, room_notnull |-> TRUE, importance_check |-> "none"]

FreshDb ==
    [ memoriesTable |-> [exists |-> FALSE, room_notnull |-> FALSE, importance_check |-> "none"],
      profileSchema |-> "absent",
      vecTable |-> "absent",
      vecParent |-> "memories",
      foreign_keys |-> TRUE,
      \* tables a migration creates for its own use and drops again
      scratchTables |-> {},
      rooms |-> EmptyFn,
      users |-> EmptyFn,
      user_profile |-> EmptyFn,
      memories |-> {},
      memory_vec |-> EmptyFn ]

\* a database written by the single-file data layer that preceded db/core.mjs:
\* room_id NOT NULL, importance unconstrained, no digest column
LegacyDb ==
    [ FreshDb EXCEPT
      !.memoriesTable = LegacyMemoriesTable,
      !.profileSchema = "nodigest",
      !.vecTable = "json",
      !.rooms = [r \in {"r1"} |-> 0],
      !.users = [t \in {"abc"} |-> [last_display_name |-> "Al", last_seen_at |-> 0]],
      !.user_profile = [t \in {"abc"} |->
          [profile_json |-> EmptyObject, memory_digest_json |-> NoColumn, updated_at |-> 0]],
      !.memories = { Mem("old1", "r1", "abc", 12, NullInt, 0),
                     Mem("old2", "r1", NULL, 0, <<1>>, 0) },
      !.memory_vec = [i \in {"old1"} |-> <<1>>] ]

\* a database of the current schema in which a vector row has lost its memory
\* (memory_vec written by a connection that did not enforce foreign keys)
CurrentDb ==
    [ FreshDb EXCEPT
      !.memoriesTable = CurrentMemoriesTable,
      !.profileSchema = "current",
      !.vecTable = "json",
      !.rooms = [r \in {"r1"} |-> 0],
      !.users = [t \in {"abc"} |-> [last_display_name |-> "Al", last_seen_at |-> 0]],
      !.memories = { Mem("old1", "r1", "abc", 3, <<1>>, 0) },
      !.memory_vec = [i \in {"old1", "gone"} |-> <<1>>] ]

\* a database of the earlier data layer that ran with the extension loaded:
\* its memory_vec is the vec0 virtual table
LegacyVecDb ==
    [ LegacyDb EXCEPT !.vecTable = "vec0", !.memory_vec = EmptyFn ]

InitialDatabases == {FreshDb, LegacyDb, LegacyVecDb, CurrentDb}

\* a database of the earlier data layer in which a vector row has lost its
\* memory, as in CurrentDb
LegacyOrphanDb ==
    [ LegacyDb EXCEPT !.memory_vec = [i \in {"old1", "gone"} |-> <<1>>] ]
ExtensionPaths == {"unset", "bad", "good"}

MemoryIds(d) == {m.memory_id : m \in d.memories}
VecIds(d) == DOMAIN d.memory_vec
OrphanVectors(d) == VecIds(d) \ MemoryIds(d)

Restrict(f, S) == [x \in (DOMAIN f) \cap S |-> f[x]]
Put(f, k, v) == [x \in (DOMAIN f) \cup {k} |-> IF x = k THEN v ELSE f[x]]

(***************************************************************************)
(* SQLite: which statements on memory_vec compile.  A statement naming a   *)
(* column the table does not have, a statement on a virtual table whose    *)
(* module is not loaded, and (with foreign keys on) a statement on a table *)
(* whose REFERENCES parent is gone all fail in db.prepare / db.exec.       *)
(***************************************************************************)
isVectorModeEnabled(p) == p.vectorMode = "vec0"

VecTableUsable(p, d) ==
    \/ d.vecTable = "json" /\ (d.vecParent = "memories" \/ ~d.foreign_keys)
    \/ d.vecTable = "vec0" /\ isVectorModeEnabled(p)

\* INSERT INTO memory_vec (memory_id, embedding_json) ... ON CONFLICT ...
upsertMemoryVecJsonStmtPrepares(p, d) ==
    d.vecTable = "json" /\ VecTableUsable(p, d)

\* INSERT OR REPLACE INTO memory_vec (memory_id, embedding)
upsertMemoryVecVec0StmtPrepares(p, d) ==
    d.vecTable = "vec0" /\ VecTableUsable(p, d)

\* DELETE FROM memory_vec WHERE memory_id NOT IN (SELECT memory_id FROM memories)
deleteOrphanVectorsStmtPrepares(p, d) == VecTableUsable(p, d)

(***************************************************************************)
(* core.mjs: schema lifecycle                                              *)
(***************************************************************************)
tryLoadVectorExtension_NoGuard(p, e) ==
    IF e = "unset" THEN [p EXCEPT !.vectorExtensionTried = TRUE]
    ELSE [p EXCEPT !.vectorExtensionTried = TRUE,
                   !.vectorMode = IF e = "good" THEN "vec0" ELSE @,
                   !.extLoads = @ + 1]

tryLoadVectorExtension(p, e) ==
    IF p.vectorExtensionTried THEN p
    ELSE IF e = "unset" THEN [p EXCEPT !.vectorExtensionTried = TRUE]
    ELSE IF e = "good"
         THEN [p EXCEPT !.vectorExtensionTried = TRUE,
                        !.vectorMode = "vec0",
                        !.extLoads = @ + 1]
         ELSE [p EXCEPT !.vectorExtensionTried = TRUE,
                        !.extLoads = @ + 1]

\* vecCreateFails: CREATE VIRTUAL TABLE ... USING vec0 throws
initSchema(p, d, vecCreateFails) ==
    LET d1 == [d EXCEPT
                 !.memoriesTable = IF @.exists THEN @ ELSE CurrentMemoriesTable,
                 !.profileSchema = IF @ = "absent" THEN "current" ELSE @]
        json == [d1 EXCEPT
                 !.vecTable = IF @ = "absent" THEN "json" ELSE @,
                 !.vecParent = IF d1.vecTable = "absent" THEN "memories" ELSE @]
    IN IF p.vectorMode = "vec0"
       THEN IF d1.vecTable = "absent" /\ vecCreateFails
            THEN [p |-> [p EXCEPT !.vectorMode = "none"], d |-> json]
            ELSE [p |-> p,
                  d |-> [d1 EXCEPT !.vecTable = IF @ = "absent" THEN "vec0" ELSE @]]
       ELSE [p |-> p, d |-> json]

migrateUserProfileSchemaIfNeeded(d) ==
    IF d.profileSchema # "nodigest" THEN d
    ELSE [d EXCEPT
            !.profileSchema = "current",
            !.user_profile = [t \in DOMAIN @ |-> [@[t] EXCEPT !.memory_digest_json = EmptyObject]]]

MigrationNeeded_Always(d) == d.memoriesTable.exists

MigrationNeeded(d) ==
    LET hasImportanceRangeOneToTen == d.memoriesTable.importance_check = "1..10"
        roomIsNullable == ~d.memoriesTable.room_notnull
    IN d.memoriesTable.exists /\ ~(roomIsNullable /\ hasImportanceRangeOneToTen)

\* the CASE expression of the INSERT ... SELECT that copies the legacy rows
MigratedImportance_NoClamp(imp) == imp

MigratedImportance(imp) ==
    IF imp < 1 THEN 1 ELSE IF imp > 10 THEN 10 ELSE imp

\* CHECK(importance BETWEEN 1 AND 10) of the table a row is written to
CheckPasses(table, imp) ==
    CASE table.importance_check = "1..10" -> imp >= 1 /\ imp <= 10
      [] table.importance_check = "1..5" -> imp >= 1 /\ imp <= 5
      [] OTHER -> TRUE

\* the function passed to db.transaction: the database as its statements leave
\* it, up to the statement that throws
migrateMemoriesTxBody(p, d) ==
    LET jsonMode == p.vectorMode # "vec0"
        \* SELECT memory_id, embedding_json FROM memory_vec
        backupReadable == d.vecTable = "json"
        backedUp == IF jsonMode
                    THEN [d EXCEPT !.scratchTables = @ \cup {"memory_vec_backup"}]
                    ELSE d
        copied == {[m EXCEPT !.importance = MigratedImportance(m.importance)]
                     : m \in d.memories}
        copyPasses == \A m \in copied : CheckPasses(CurrentMemoriesTable, m.importance)
        kept == {m.memory_id : m \in copied}
        renamed == [backedUp EXCEPT !.scratchTables = @ \cup {"memories_legacy"},
                                    !.memoriesTable = CurrentMemoriesTable,
                                    !.memories = {},
                                    !.vecParent = IF d.vecTable = "json"
                                                  THEN "memories_legacy" ELSE @]
        rebuilt == [renamed EXCEPT !.scratchTables = @ \ {"memories_legacy"},
                                   !.memories = copied]
    IN IF jsonMode /\ ~backupReadable THEN [d |-> backedUp, threw |-> TRUE]
       ELSE IF ~copyPasses THEN [d |-> renamed, threw |-> TRUE]
       ELSE IF jsonMode
            THEN [d |-> [rebuilt EXCEPT !.scratchTables = @ \ {"memory_vec_backup"},
                                        !.vecTable = "json",
                                        !.vecParent = "memories",
                                        !.memory_vec = Restrict(@, kept)],
                  threw |-> FALSE]
            \* ALTER TABLE ... RENAME carries the REFERENCES clause of a
            \* JSON memory_vec over to memories_legacy, which is dropped
            ELSE [d |-> rebuilt, threw |-> FALSE]

migrateMemoriesTx_NoRollback(p, d) == migrateMemoriesTxBody(p, d)

\* db.transaction(...) : a throw inside rolls every statement back
migrateMemoriesTx(p, d) ==
    The({ IF r.threw THEN [d |-> d, threw |-> TRUE] ELSE r
          : r \in {migrateMemoriesTxBody(p, d)} })

migrateMemoriesSchemaIfNeeded_NoFinally(p, d) ==
    IF ~MigrationNeeded(d) THEN [d |-> d, threw |-> FALSE, ran |-> FALSE]
    ELSE
      LET fkEnabled == d.foreign_keys
          off == [d EXCEPT !.foreign_keys = FALSE]
      IN The({ [d |-> IF r.threw THEN r.d
                      ELSE [r.d EXCEPT !.foreign_keys = fkEnabled],
                threw |-> r.threw, ran |-> ~r.threw]
               : r \in {migrateMemoriesTx(p, off)} })

migrateMemoriesSchemaIfNeeded(p, d) ==
    IF ~MigrationNeeded(d) THEN [d |-> d, threw |-> FALSE, ran |-> FALSE]
    ELSE
      LET fkEnabled == d.foreign_keys
          off == [d EXCEPT !.foreign_keys = FALSE]
      IN The({ [d |-> [r.d EXCEPT !.foreign_keys = fkEnabled],
                threw |-> r.threw, ran |-> ~r.threw]
               : r \in {migrateMemoriesTx(p, off)} })

\* the body of initDb after its guard
initDbWork(p, d, e, vecCreateFails) ==
    The({ The({ The({
        IF m.threw
        THEN [p |-> [s.p EXCEPT !.initRuns = @ + 1], d |-> m.d, threw |-> TRUE]
        ELSE [p |-> [s.p EXCEPT !.initRuns = @ + 1,
                                !.dbInitialized = TRUE,
                                !.migrations = @ + (IF m.ran THEN 1 ELSE 0)],
              d |-> m.d, threw |-> FALSE]
        : m \in {migrateMemoriesSchemaIfNeeded(s.p, d3)} })
        : d3 \in {migrateUserProfileSchemaIfNeeded(s.d)} })
        : s \in {initSchema(tryLoadVectorExtension(p, e), d, vecCreateFails)} })

initDb_NoGuard(p, d, e, vecCreateFails) == initDbWork(p, d, e, vecCreateFails)

initDb(p, d, e, vecCreateFails) ==
    IF p.dbInitialized THEN [p |-> p, d |-> d, threw |-> FALSE]
    ELSE initDbWork(p, d, e, vecCreateFails)

getDbInfo(p) ==
    [ vectorMode |-> IF p.vectorMode = "vec0" THEN "vec0" ELSE "json_fallback",
      initialized |-> p.dbInitialized ]

(***************************************************************************)
(* profiles.mjs: rooms / users / user_profile                              *)
(***************************************************************************)
\* every statement of profiles.mjs compiles once initDb has created the tables
profEnsurePreparedStatements(p, d, e, vecCreateFails) ==
    IF p.profPrepared THEN [p |-> p, d |-> d, threw |-> FALSE]
    ELSE The({ IF i.threw THEN i
               ELSE [p |-> [i.p EXCEPT !.profPrepared = TRUE], d |-> i.d,
                     threw |-> FALSE]
               : i \in {initDb(p, d, e, vecCreateFails)} })

upsertRoomStmt(d, roomId, seenAt) ==
    [d EXCEPT !.rooms = Put(@, roomId, seenAt)]

upsertUserStmt(d, tripCode, displayName, seenAt) ==
    [d EXCEPT !.users = Put(@, tripCode,
        [last_display_name |-> displayName, last_seen_at |-> seenAt])]

EmptyProfileRow ==
    [profile_json |-> EmptyObject, memory_digest_json |-> EmptyObject, updated_at |-> 0]


\* INSERT OR REPLACE in place of ON CONFLICT DO UPDATE
upsertProfileStmt_ReplacesRow(d, tripCode, profile, updatedAt) ==
    [d EXCEPT !.user_profile = Put(@, tripCode,
          [EmptyProfileRow EXCEPT !.profile_json = profile, !.updated_at = updatedAt])]

upsertProfileStmt(d, tripCode, profile, updatedAt) ==
    LET old == IF tripCode \in DOMAIN d.user_profile
               THEN d.user_profile[tripCode] ELSE EmptyProfileRow
    IN [d EXCEPT !.user_profile = Put(@, tripCode,
          [old EXCEPT !.profile_json = profile, !.updated_at = updatedAt])]

\* a merge that keeps the stored lists where the new digest has none
upsertMemoryDigestStmt_KeepsOldIfEmpty(d, tripCode, digest, updatedAt) ==
    LET old == IF tripCode \in DOMAIN d.user_profile
               THEN d.user_profile[tripCode] ELSE EmptyProfileRow
        empty == digest.highlights = << >> /\ digest.ongoing_threads = << >>
                 /\ digest.stable_preferences = << >>
    IN [d EXCEPT !.user_profile = Put(@, tripCode,
          [old EXCEPT !.memory_digest_json = IF empty /\ tripCode \in DOMAIN d.user_profile
                                             THEN @ ELSE digest,
                      !.updated_at = updatedAt])]

upsertMemoryDigestStmt(d, tripCode, digest, updatedAt) ==
    LET old == IF tripCode \in DOMAIN d.user_profile
               THEN d.user_profile[tripCode] ELSE EmptyProfileRow
    IN [d EXCEPT !.user_profile = Put(@, tripCode,
          [old EXCEPT !.memory_digest_json = digest, !.updated_at = updatedAt])]

(***************************************************************************)
(* memories.mjs: memories / memory_vec                                     *)
(***************************************************************************)
memEnsurePreparedStatements(p, d, e, vecCreateFails) ==
    IF p.memPrepared THEN [p |-> p, d |-> d, threw |-> FALSE]
    ELSE The({ IF i.threw THEN i
               ELSE IF /\ upsertMemoryVecJsonStmtPrepares(i.p, i.d)
                       /\ (isVectorModeEnabled(i.p)
                             => upsertMemoryVecVec0StmtPrepares(i.p, i.d))
                       /\ deleteOrphanVectorsStmtPrepares(i.p, i.d)
               THEN [p |-> [i.p EXCEPT !.memPrepared = TRUE], d |-> i.d, threw |-> FALSE]
               ELSE [p |-> i.p, d |-> i.d, threw |-> TRUE]
               : i \in {initDb(p, d, e, vecCreateFails)} })

\* ttl_days IS NOT NULL AND created_at < (unixepoch() - ttl_days * 86400)
Expired_AtTheBoundaryToo(m, t) ==
    m.ttl_days # NullInt /\ m.created_at <= t - m.ttl_days[1] * DaySeconds

Expired(m, t) ==
    m.ttl_days # NullInt /\ m.created_at < t - m.ttl_days[1] * DaySeconds

\* ttl_days IS NULL OR created_at >= (unixepoch() - ttl_days * 86400)
NotExpired_IgnoresTtl(m, t) == TRUE

NotExpired(m, t) ==
    m.ttl_days = NullInt \/ m.created_at >= t - m.ttl_days[1] * DaySeconds

\* FOREIGN KEY(memory_id) REFERENCES memories(memory_id) ON DELETE CASCADE
VecCascades(d) ==
    d.foreign_keys /\ d.vecTable = "json" /\ d.vecParent = "memories"

\* DELETE FROM memories WHERE memory_id IN ids
DeleteMemories(d, ids) ==
    [d EXCEPT !.memories = {m \in @ : m.memory_id \notin ids},
              !.memory_vec = IF VecCascades(d)
                             THEN Restrict(@, (DOMAIN @) \ ids) ELSE @]

deleteOrphanVectorsStmt_Nothing(d) == d

deleteOrphanVectorsStmt(d) ==
    [d EXCEPT !.memory_vec = Restrict(@, MemoryIds(d))]

\* ORDER BY importance DESC, last_used_at DESC, created_at DESC
Before(a, b) ==
    \/ a.importance > b.importance
    \/ a.importance = b.importance /\ a.last_used_at > b.last_used_at
    \/ a.importance = b.importance /\ a.last_used_at = b.last_used_at
       /\ a.created_at > b.created_at


\* every order in which SQLite may return the rows S under that ORDER BY
Orderings(S) ==
    LET n == Cardinality(S)
    IN {q \in [1..n -> S] :
          /\ \A i, j \in 1..n : i # j => q[i] # q[j]
          /\ \A i, j \in 1..n : i < j => ~Before(q[j], q[i])}

Take(q, n) == IF Len(q) <= n THEN q ELSE SubSeq(q, 1, n)

\* Math.max(1, Math.min(100, Math.floor(Number(limit) || 10)))
BoundedLimit(raw) ==
    LET n == IF IsFinite(raw) /\ raw.halves # 0 THEN Floor(raw) ELSE 10
    IN Max(1, Min(100, n))

listMemoriesByTripStmt_NoTripFilter(d, tripCode, boundedMin, t) ==
    {m \in d.memories : m.importance >= boundedMin /\ NotExpired(m, t)}

\* the WHERE clause of listMemoriesByTripStmt
listMemoriesByTripStmt(d, tripCode, boundedMin, t) ==
    {m \in d.memories :
        /\ m.trip_code = tripCode
        /\ m.importance >= boundedMin
        /\ NotExpired(m, t)}

\* the results listMemoriesByTrip may return once statements are prepared
listMemoriesByTrip(d, tripCode, minImportanceRaw, limitRaw, t) ==
    IF tripCode = NULL THEN { << >> }
    ELSE { Take(q, BoundedLimit(limitRaw)) :
             q \in Orderings(listMemoriesByTripStmt(d, tripCode,
                                BoundedImportance(minImportanceRaw), t)) }

NoEmbedding == [isArray |-> FALSE, values |-> << >>]
Embedding(v) == [isArray |-> TRUE, values |-> v]

\* FOREIGN KEY(trip_code) REFERENCES users, FOREIGN KEY(room_id) REFERENCES rooms
MemoryFkPasses(d, roomId, tripCode) ==
    \/ ~d.foreign_keys
    \/ /\ (tripCode # NULL => tripCode \in DOMAIN d.users)
       /\ (roomId # NULL => roomId \in DOMAIN d.rooms)

\* PRIMARY KEY, NOT NULL and CHECK of the memories row being inserted
MemoryRowPasses(d, memoryId, roomId, importance) ==
    /\ memoryId \notin MemoryIds(d)
    /\ CheckPasses(d.memoriesTable, importance)
    /\ (d.memoriesTable.room_notnull => roomId # NULL)

InsertUpserts_NoUser(d, payload, t) ==
    IF payload.room_id # NULL THEN upsertRoomStmt(d, payload.room_id, t) ELSE d

\* insertMemoryTx: upsertRoom / upsertUser ahead of the INSERT
InsertUpserts(d, payload, t) ==
    LET d1 == IF payload.room_id # NULL
              THEN upsertRoomStmt(d, payload.room_id, t) ELSE d
    IN IF payload.trip_code # NULL
       THEN upsertUserStmt(d1, payload.trip_code, payload.display_name, t) ELSE d1

\* the function handed to db.transaction: on a failing statement, d is the
\* database as the statements before it left it
insertMemoryTxBody(p, d, payload, t) ==
    LET touches == payload.room_id # NULL \/ payload.trip_code # NULL
        p1 == IF touches THEN [p EXCEPT !.profPrepared = TRUE] ELSE p
        d2 == InsertUpserts(d, payload, t)
        row == Mem(payload.memory_id, payload.room_id, payload.trip_code,
                   payload.importance, payload.ttl_days, t)
        d3 == [d2 EXCEPT !.memories = @ \cup {row}]
        withVec == payload.embedding.isArray /\ Len(payload.embedding.values) > 0
        d4 == IF withVec
              THEN [d3 EXCEPT !.memory_vec = Put(@, payload.memory_id, payload.embedding.values)]
              ELSE d3
    IN IF /\ MemoryRowPasses(d2, payload.memory_id, payload.room_id, payload.importance)
          /\ MemoryFkPasses(d2, payload.room_id, payload.trip_code)
       THEN [p |-> p1, d |-> d4, threw |-> FALSE, fk |-> TRUE]
       ELSE [p |-> p1, d |-> d2, threw |-> TRUE,
             fk |-> MemoryFkPasses(d2, payload.room_id, payload.trip_code)]

insertMemoryTx_NoRollback(p, d, payload, t) ==
    insertMemoryTxBody(p, d, payload, t)

\* db.transaction: an exception rolls back what the body wrote; profPrepared
\* is module state and survives the rollback
insertMemoryTx(p, d, payload, t) ==
    The({ IF r.threw THEN [r EXCEPT !.d = d] ELSE r
          : r \in {insertMemoryTxBody(p, d, payload, t)} })

insertMemory(p, d, e, vecCreateFails, payload, t) ==
    The({ IF ens.threw THEN [p |-> ens.p, d |-> ens.d, threw |-> TRUE, fk |-> TRUE]
          ELSE insertMemoryTx(ens.p, ens.d, payload, t)
          : ens \in {memEnsurePreparedStatements(p, d, e, vecCreateFails)} })

cleanupTtlAndVectorsTx_TouchesSurvivors(d, t) ==
    LET expired == {m.memory_id : m \in {x \in d.memories : Expired(x, t)}}
        d1 == DeleteMemories(d, expired)
        d2 == deleteOrphanVectorsStmt(d1)
    IN [d |-> [d2 EXCEPT !.memories = {[m EXCEPT !.last_used_at = t] : m \in @}],
        removedMemories |-> Cardinality(expired),
        removedVectors |-> Cardinality(VecIds(d1)) - Cardinality(VecIds(d2))]

cleanupTtlAndVectorsTx(d, t) ==
    LET expired == {m.memory_id : m \in {x \in d.memories : Expired(x, t)}}
        d1 == DeleteMemories(d, expired)
        d2 == deleteOrphanVectorsStmt(d1)
    IN [d |-> d2,
        removedMemories |-> Cardinality(expired),
        removedVectors |-> Cardinality(VecIds(d1)) - Cardinality(VecIds(d2))]

\* DELETE FROM memories WHERE trip_code IS NOT NULL AND importance < ?
deleteLowImportanceMemoriesStmt_AlsoRoomOnly(d, k) ==
    {m.memory_id : m \in {x \in d.memories : x.importance < k}}

deleteLowImportanceMemoriesStmt(d, k) ==
    {m.memory_id : m \in {x \in d.memories : x.trip_code # NULL /\ x.importance < k}}

pruneLowImportanceMemoriesTx_OnlyDigestedUsers(d, minKeepRaw) ==
    LET digested == { t \in DOMAIN d.user_profile :
                        d.user_profile[t].memory_digest_json # EmptyObject }
        low == { m.memory_id :
                   m \in { x \in d.memories :
                             /\ x.trip_code \in digested
                             /\ x.importance < BoundedImportance(minKeepRaw) } }
        d1 == DeleteMemories(d, low)
        d2 == deleteOrphanVectorsStmt(d1)
    IN [d |-> d2,
        removedMemories |-> Cardinality(low),
        removedVectors |-> Cardinality(VecIds(d1)) - Cardinality(VecIds(d2))]

pruneLowImportanceMemoriesTx(d, minKeepRaw) ==
    LET low == deleteLowImportanceMemoriesStmt(d, BoundedImportance(minKeepRaw))
        d1 == DeleteMemories(d, low)
        d2 == deleteOrphanVectorsStmt(d1)
    IN [d |-> d2,
        removedMemories |-> Cardinality(low),
        removedVectors |-> Cardinality(VecIds(d1)) - Cardinality(VecIds(d2))]

Abs(x) == IF x < 0 THEN -x ELSE x

\* vec0: rows of memory_vec by distance to the query, nearest first
NearestOrderings(d, query) ==
    LET ids == VecIds(d)
        n == Cardinality(ids)
        dist(i) == Abs(d.memory_vec[i][1] - query[1])
    IN {q \in [1..n -> ids] :
          /\ \A i, j \in 1..n : i # j => q[i] # q[j]
          /\ \A i, j \in 1..n : i < j => dist(q[i]) <= dist(q[j])}

RECURSIVE AttachRows(_, _, _, _)
AttachRows(vectorRows, rowsById, d, query) ==
    IF vectorRows = << >> THEN << >>
    ELSE LET id == Head(vectorRows)
             rest == AttachRows(Tail(vectorRows), rowsById, d, query)
         IN IF id \in {m.memory_id : m \in rowsById}
            THEN << [memory_id |-> id,
                     distance |-> Abs(d.memory_vec[id][1] - query[1])] >> \o rest
            ELSE rest

\* the results searchMemories may return once statements are prepared;
\* Unsupported is its null
Unsupported == [isNull |-> TRUE, items |-> << >>]

searchMemories(p, d, roomId, tripCode, queryEmbedding, topK) ==
    IF ~isVectorModeEnabled(p) THEN { Unsupported }
    ELSE
      LET rows == {m \in d.memories :
                     /\ m.room_id = roomId
                     /\ (m.trip_code = NULL \/ (tripCode # NULL /\ m.trip_code = tripCode))}
      IN { [isNull |-> FALSE,
            items |-> AttachRows(Take(q, topK), rows, d, queryEmbedding)]
             : q \in NearestOrderings(d, queryEmbedding) }

(***************************************************************************)
(* memoryDigestService.mjs: the digest written for a user                  *)
(***************************************************************************)
NotAString == "<not a string>"
Trim(str) ==
    CASE str = " " -> ""
      [] str = " tea" -> "tea"
      [] str = "Tea " -> "Tea"
      [] str = " Al " -> "Al"
      [] str = " @bot" -> "@bot"
      [] str = "en " -> "en"
      [] OTHER -> str
ToLowerCase(str) ==
    CASE str = "Tea" -> "tea"
      [] str = "Tea " -> "tea "
      [] str = "You" -> "you"
      [] str = "Jazz" -> "jazz"
      [] OTHER -> str

\* a JSON value where an array is expected: Arr(items) is an array, any
\* other value (absent, null, a string, an object) is NotAnArray
Arr(items) == [isArray |-> TRUE, items |-> items]
NotAnArray == [isArray |-> FALSE, items |-> << >>]

\* an element of ongoing_threads that is no object (null, a string, an array)
NotAnObject == [isObject |-> FALSE, topic |-> NotAString, status |-> NotAString,
                note |-> NotAString]
Thread(topic, status, note) ==
    [isObject |-> TRUE, topic |-> topic, status |-> status, note |-> note]

RECURSIVE NormalizeStringArrayFrom(_, _, _, _)
NormalizeStringArrayFrom(value, seen, items, maxLength) ==
    IF value = << >> \/ Len(items) >= maxLength THEN items
    ELSE LET item == Head(value)
             trimmed == Trim(item)
             key == ToLowerCase(trimmed)
         IN IF item = NotAString \/ trimmed = "" \/ key \in seen
            THEN NormalizeStringArrayFrom(Tail(value), seen, items, maxLength)
            ELSE NormalizeStringArrayFrom(Tail(value), seen \cup {key},
                                          Append(items, trimmed), maxLength)

normalizeStringArray_NoLimit(value, maxLength) ==
    IF ~value.isArray THEN << >>
    ELSE NormalizeStringArrayFrom(value.items, {}, << >>, Len(value.items) + 1)

normalizeStringArray(value, maxLength) ==
    IF ~value.isArray THEN << >>
    ELSE NormalizeStringArrayFrom(value.items, {}, << >>, maxLength)

RECURSIVE NormalizeOngoingThreadsFrom(_, _, _)
NormalizeOngoingThreadsFrom(value, items, maxLength) ==
    IF value = << >> \/ Len(items) >= maxLength THEN items
    ELSE LET item == Head(value)
             topic == IF item.topic = NotAString THEN "" ELSE Trim(item.topic)
             status == IF item.status = NotAString THEN "" ELSE Trim(item.status)
             note == IF item.note = NotAString THEN "" ELSE Trim(item.note)
         IN IF ~item.isObject \/ (topic = "" /\ note = "")
            THEN NormalizeOngoingThreadsFrom(Tail(value), items, maxLength)
            ELSE NormalizeOngoingThreadsFrom(Tail(value),
                   Append(items, [topic |-> topic, status |-> status, note |-> note]),
                   maxLength)

normalizeOngoingThreads(value, maxLength) ==
    IF ~value.isArray THEN << >>
    ELSE NormalizeOngoingThreadsFrom(value.items, << >>, maxLength)

MaxHighlights == 12
MaxOngoingThreads == 10
MaxStablePreferences == 12

\* the object {}: none of the three keys
EmptyRawDigest ==
    [highlights |-> NotAnArray, ongoing_threads |-> NotAnArray,
     stable_preferences |-> NotAnArray]

\* what JSON.parse returns: an object, or a value that is none (an array, a
\* number, a string); parseJsonResponse returns null where it gives up
JsonObject(raw) == [type |-> "object", digest |-> raw]
JsonArray == [type |-> "array", digest |-> EmptyRawDigest]
JsonNull == [type |-> "null", digest |-> EmptyRawDigest]

normalizeDigest(rawDigest, updatedAt) ==
    LET safe == IF rawDigest.type = "object" THEN rawDigest.digest ELSE EmptyRawDigest
    IN [ highlights |-> normalizeStringArray(safe.highlights, MaxHighlights),
         ongoing_threads |-> normalizeOngoingThreads(safe.ongoing_threads, MaxOngoingThreads),
         stable_preferences |-> normalizeStringArray(safe.stable_preferences, MaxStablePreferences),
         updated_at |-> updatedAt ]

\* the text of a model reply, by what JSON.parse makes of it:
\*   "json"      JSON text of the value
\*   "wrapped"   prose around the JSON text of an object value
\*   "noBraces"  no JSON and no { ... } to cut out
\*   "badBraces" no JSON, and what lies between the first { and the last }
\*               is no JSON either
Text(kind, value) == [kind |-> kind, value |-> value]

parseJsonResponse(text) ==
    CASE text.kind = "json" -> text.value
      [] text.kind = "wrapped" -> text.value
      [] OTHER -> JsonNull

\* response.choices[0]?.message?.content, absent or there
NoContent == [present |-> FALSE, text |-> Text("noBraces", JsonNull)]
Content(text) == [present |-> TRUE, text |-> text]

\* summarizeUserMemoryDigest after its await:
\* text = content || '{}', parsed = parseJsonResponse(text),
\* normalizeDigest(parsed || {}, now)
DigestOfContent(content, updatedAt) ==
    LET text == IF content.present THEN content.text
                ELSE Text("json", JsonObject(EmptyRawDigest))
        parsed == parseJsonResponse(text)
    IN normalizeDigest(IF parsed.type = "null" THEN JsonObject(EmptyRawDigest)
                       ELSE parsed, updatedAt)

RawDigestA ==
    [ highlights |-> Arr(<< "Tea", " tea", " ", "jazz", NotAString >>),
      ongoing_threads |-> Arr(<< Thread(" ", "open", ""),
                                 Thread(" tea", NotAString, "") >>),
      stable_preferences |-> Arr(<< "jazz" >>) ]

\* the summarizer: it throws, or the reply carries this content
Threw == [threw |-> TRUE, content |-> NoContent]
Replied(content) == [threw |-> FALSE, content |-> content]

SummarizerOutcomes ==
    { Threw,
      Replied(Content(Text("noBraces", JsonNull))),
      Replied(Content(Text("json", JsonObject(RawDigestA)))) }

(***************************************************************************)
(* profileExtractor.mjs: the setprofile command, the extracted fragment    *)
(* and the merge.  Strings are ASCII: "ni", "wo", "ta" stand for the       *)
(* one-character pronouns of the source, "ni@liam" for that pronoun        *)
(* followed by a mention.                                                  *)
(***************************************************************************)
normalizeNullableString(value) ==
    IF value = NULL \/ value = NotAString THEN NULL
    ELSE IF Trim(value) = "" THEN NULL ELSE Trim(value)

\* the text of a setprofile command body: its length and the lower-cased
\* phrases it contains
Source(chars, includes) == [chars |-> chars, includes |-> includes]

sourceIncludesPhrase(sourceText, phrase) ==
    ToLowerCase(phrase) \in sourceText.includes

Pronouns == {"ni", "wo", "ta", "you", "me", "him", "her", "them"}
\* /^ni[@#].+/u : the pronoun, @ or #, and at least one more character
YouMentions == {"ni@liam", "ni#liam"}
\* /^@[^\s]+$/u : @ and one or more characters, none of them white space
BareMentions == {"@bot"}

isPronounNoise_PronounsOnly(text) == ToLowerCase(text) \in Pronouns

isPronounNoise(text) ==
    \/ ToLowerCase(text) \in Pronouns
    \/ text \in YouMentions
    \/ text \in BareMentions

RECURSIVE ProfileStringArrayFrom(_, _, _, _, _)
ProfileStringArrayFrom(value, seen, result, sourceText, strictFromSource) ==
    IF value = << >> THEN result
    ELSE LET item == Head(value)
             trimmed == Trim(item)
             dedupeKey == ToLowerCase(trimmed)
             skipped == \/ item = NotAString
                        \/ trimmed = ""
                        \/ isPronounNoise(trimmed)
                        \/ /\ strictFromSource
                           /\ sourceText.chars > 0
                           /\ ~sourceIncludesPhrase(sourceText, trimmed)
                        \/ dedupeKey \in seen
         IN IF skipped
            THEN ProfileStringArrayFrom(Tail(value), seen, result, sourceText,
                                        strictFromSource)
            ELSE ProfileStringArrayFrom(Tail(value), seen \cup {dedupeKey},
                                        Append(result, trimmed), sourceText,
                                        strictFromSource)

NoSource == Source(0, {})

\* normalizeStringArray of profileExtractor.mjs
profileStringArray_NoDedupe(value, sourceText, strictFromSource) ==
    IF ~value.isArray THEN << >>
    ELSE SelectSeq(value.items,
                   LAMBDA item : item # NotAString /\ Trim(item) # ""
                                 /\ ~isPronounNoise(Trim(item)))

profileStringArray(value, sourceText, strictFromSource) ==
    IF ~value.isArray THEN << >>
    ELSE ProfileStringArrayFrom(value.items, {}, << >>, sourceText, strictFromSource)

\* a profile object as JSON holds it; updated_at is << >> where the key is
\* missing, other is a key that is none of the eight (NULL: there is none)
ProfileObject(cn, lang, loc, id, likes, dislikes, at, dn, other) ==
    [ type |-> "object", common_name |-> cn, language |-> lang, location |-> loc,
      identity |-> id, likes |-> likes, dislikes |-> dislikes,
      updated_at |-> at, display_name |-> dn, other |-> other ]
\* the object {}
EmptyProfileObject ==
    ProfileObject(NULL, NULL, NULL, NULL, NotAnArray, NotAnArray, NullInt, NULL, NULL)
\* a JSON value that is no object, and a profile_json that does not parse
NotAProfileObject == [EmptyProfileObject EXCEPT !.type = "array"]

validateAndNormalizeExtractedProfile(raw, sourceText) ==
    IF raw.type # "object" THEN [threw |-> TRUE, profile |-> EmptyProfileObject]
    ELSE [ threw |-> FALSE,
           profile |-> [ common_name |-> normalizeNullableString(raw.common_name),
                         language |-> normalizeNullableString(raw.language),
                         location |-> normalizeNullableString(raw.location),
                         identity |-> normalizeNullableString(raw.identity),
                         likes |-> profileStringArray(raw.likes, sourceText, TRUE),
                         dislikes |-> profileStringArray(raw.dislikes, sourceText, TRUE) ] ]

\* a chat message: whether it begins with the command, and what follows it
Message(command, rest) == [isString |-> TRUE, command |-> command, rest |-> rest]
\* message_text missing, empty or no string
NoMessage == [isString |-> FALSE, command |-> FALSE, rest |-> NoSource]
parseSetProfileInput(messageText) ==
    IF ~messageText.command THEN [matched |-> FALSE, content |-> NoSource]
    ELSE [matched |-> TRUE, content |-> messageText.rest]

MergedScalar_NullOverwrites(old, incoming) == incoming

MergedScalar(old, incoming) ==
    IF incoming # NULL THEN incoming ELSE normalizeNullableString(old)

\* the lists of the fragment replace the stored ones
mergeProfile_ListsReplaced(oldProfile, newProfile, displayName, updatedAt) ==
    LET safeOld == IF oldProfile.type = "object" THEN oldProfile ELSE EmptyProfileObject
    IN ProfileObject(
         MergedScalar(safeOld.common_name, newProfile.common_name),
         MergedScalar(safeOld.language, newProfile.language),
         MergedScalar(safeOld.location, newProfile.location),
         MergedScalar(safeOld.identity, newProfile.identity),
         Arr(profileStringArray(Arr(newProfile.likes), NoSource, FALSE)),
         Arr(profileStringArray(Arr(newProfile.dislikes), NoSource, FALSE)),
         << updatedAt >>, displayName, NULL)

mergeProfile(oldProfile, newProfile, displayName, updatedAt) ==
    LET safeOld == IF oldProfile.type = "object" THEN oldProfile ELSE EmptyProfileObject
        likes == profileStringArray(safeOld.likes, NoSource, FALSE)
        dislikes == profileStringArray(safeOld.dislikes, NoSource, FALSE)
    IN ProfileObject(
         MergedScalar(safeOld.common_name, newProfile.common_name),
         MergedScalar(safeOld.language, newProfile.language),
         MergedScalar(safeOld.location, newProfile.location),
         MergedScalar(safeOld.identity, newProfile.identity),
         Arr(profileStringArray(Arr(likes \o newProfile.likes), NoSource, FALSE)),
         Arr(profileStringArray(Arr(dislikes \o newProfile.dislikes), NoSource, FALSE)),
         << updatedAt >>, displayName, NULL)

(***************************************************************************)
(* The state machine                                                        *)
(***************************************************************************)
IdlePass == [pc |-> "idle"]
IdIndex == << "m1", "m2", "m3", "m4", "m5", "m6" >>
randomUUID == IdIndex[uuid + 1]

\* whether CREATE VIRTUAL TABLE ... USING vec0 throws, where it can run at all
VecCreateOutcomes ==
    IF ~proc.dbInitialized /\ db.vecTable = "absent" /\ env.extPath = "good"
    THEN BOOLEAN ELSE {FALSE}

CanInit == proc.dbInitialized \/ proc.initRuns < MaxInitRuns
Alive == proc.started # "crashed"
Serving == proc.started = "yes"

Envs(paths, keys) == [extPath : paths, apiKey : keys]

InitWith(databases, envs) ==
    /\ proc = FreshProc
    /\ db \in databases
    /\ env \in envs
    /\ now = 0
    /\ pass = IdlePass
    /\ last = [op |-> "none"]
    /\ restarts = 0
    /\ uuid = 0

\* server/index.mjs bootstrapServer: initDb(), then cleanupTtlAndVectors();
\* an exception ends the process
ServerStartup ==
    /\ proc.started = "no"
    /\ CanInit
    /\ \E f \in VecCreateOutcomes :
       \E i \in {initDb(proc, db, env.extPath, f)} :
       \E e \in {IF i.threw THEN i
                 ELSE memEnsurePreparedStatements(i.p, i.d, env.extPath, f)} :
       \E c \in {cleanupTtlAndVectorsTx(e.d, now)} :
            IF e.threw
            THEN /\ proc' = [e.p EXCEPT !.started = "crashed"]
                 /\ db' = e.d
                 /\ last' = [op |-> "startup", result |-> "throws"]
            ELSE /\ proc' = [e.p EXCEPT !.started = "yes"]
                 /\ db' = c.d
                 /\ last' = [op |-> "startup", result |-> "ok",
                             removedMemories |-> c.removedMemories,
                             removedVectors |-> c.removedVectors]
    /\ UNCHANGED <<env, now, pass, restarts, uuid>>

\* the process ends and a new one opens the same database file
Restart(envs) ==
    /\ restarts < MaxRestarts
    /\ restarts' = restarts + 1
    /\ proc' = FreshProc
    /\ env' \in envs
    /\ pass' = IdlePass
    /\ last' = [op |-> "restart"]
    /\ UNCHANGED <<db, now, uuid>>

Tick ==
    /\ now < MaxTicks * TickSeconds
    /\ now' = now + TickSeconds
    /\ last' = [op |-> "tick"]
    /\ UNCHANGED <<proc, db, env, pass, restarts, uuid>>

\* initDb() called on its own (any entry point)
CallInitDb ==
    /\ Alive /\ CanInit
    /\ \E f \in VecCreateOutcomes :
       \E i \in {initDb(proc, db, env.extPath, f)} :
            /\ proc' = i.p
            /\ db' = i.d
            /\ last' = [op |-> "initDb",
                        result |-> IF i.threw THEN "throws" ELSE "ok",
                        vecCreateThrew |-> f,
                        before |-> getDbInfo(proc),
                        info |-> getDbInfo(i.p)]
    /\ UNCHANGED <<env, now, pass, restarts, uuid>>

\* memories.mjs cleanupTtlAndVectors (also POST /api/maintenance/cleanup-ttl)
CallCleanup ==
    /\ Alive /\ CanInit
    /\ \E f \in VecCreateOutcomes :
       \E e \in {memEnsurePreparedStatements(proc, db, env.extPath, f)} :
       \E c \in {cleanupTtlAndVectorsTx(e.d, now)} :
            /\ proc' = e.p
            /\ IF e.threw
               THEN /\ db' = e.d
                    /\ last' = [op |-> "cleanupTtlAndVectors", result |-> "throws"]
               ELSE /\ db' = c.d
                    /\ last' = [op |-> "cleanupTtlAndVectors", result |-> "ok",
                                before |-> e.d.memories,
                                vecBefore |-> VecIds(e.d),
                                removedMemories |-> c.removedMemories,
                                removedVectors |-> c.removedVectors]
    /\ UNCHANGED <<env, now, pass, restarts, uuid>>

\* the rows of the store
Rows(d) ==
    [ rooms |-> d.rooms, users |-> d.users, user_profile |-> d.user_profile,
      memories |-> d.memories, memory_vec |-> d.memory_vec ]

\* memories.mjs insertMemory, called by a route or service with its payload
CallInsertMemory(payload) ==
    /\ Alive /\ CanInit
    /\ \E f \in VecCreateOutcomes :
       \E e \in {memEnsurePreparedStatements(proc, db, env.extPath, f)} :
       \E r \in {IF e.threw THEN [p |-> e.p, d |-> e.d, threw |-> TRUE, fk |-> TRUE]
                 ELSE insertMemoryTx(e.p, e.d, payload, now)} :
            /\ proc' = r.p
            /\ db' = r.d
            /\ last' = [op |-> "insertMemory",
                        result |-> IF r.threw THEN "throws" ELSE "ok",
                        mode |-> e.p.vectorMode,
                        prepared |-> ~e.threw,
                        payload |-> payload,
                        before |-> Rows(e.d)]
    /\ UNCHANGED <<env, now, pass, restarts, uuid>>

\* memories.mjs pruneLowImportanceMemories
CallPrune(minKeepRaw) ==
    /\ Alive /\ CanInit
    /\ \E f \in VecCreateOutcomes :
       \E e \in {memEnsurePreparedStatements(proc, db, env.extPath, f)} :
       \E c \in {pruneLowImportanceMemoriesTx(e.d, minKeepRaw)} :
            /\ proc' = e.p
            /\ IF e.threw
               THEN /\ db' = e.d
                    /\ last' = [op |-> "pruneLowImportanceMemories", result |-> "throws"]
               ELSE /\ db' = c.d
                    /\ last' = [op |-> "pruneLowImportanceMemories", result |-> "ok",
                                k |-> minKeepRaw,
                                before |-> e.d.memories,
                                removedMemories |-> c.removedMemories,
                                removedVectors |-> c.removedVectors]
    /\ UNCHANGED <<env, now, pass, restarts, uuid>>

\* memories.mjs listMemoriesByTrip
CallList(tripCode, minImportanceRaw, limitRaw) ==
    /\ Alive /\ CanInit
    /\ \E f \in VecCreateOutcomes :
       \E e \in {memEnsurePreparedStatements(proc, db, env.extPath, f)} :
            /\ proc' = e.p
            /\ db' = e.d
            /\ IF e.threw
               THEN last' = [op |-> "listMemoriesByTrip", result |-> "throws"]
               ELSE \E rows \in listMemoriesByTrip(e.d, tripCode, minImportanceRaw, limitRaw, now) :
                      last' = [op |-> "listMemoriesByTrip", result |-> "ok",
                               tripCode |-> tripCode,
                               minImportance |-> minImportanceRaw,
                               limit |-> limitRaw,
                               afterPrune |-> IF last.op = "pruneLowImportanceMemories"
                                                 /\ last.result = "ok"
                                              THEN << [k |-> last.k,
                                                       removedMemories |-> last.removedMemories] >>
                                              ELSE << >>,
                               rows |-> rows]
    /\ UNCHANGED <<env, now, pass, restarts, uuid>>

\* memories.mjs searchMemories
CallSearch(roomId, tripCode, queryEmbedding, topK) ==
    /\ Alive /\ CanInit
    /\ \E f \in VecCreateOutcomes :
       \E e \in {memEnsurePreparedStatements(proc, db, env.extPath, f)} :
            /\ proc' = e.p
            /\ db' = e.d
            /\ IF e.threw
               THEN last' = [op |-> "searchMemories", result |-> "throws",
                             mode |-> e.p.vectorMode,
                             roomId |-> roomId, tripCode |-> tripCode,
                             queryEmbedding |-> queryEmbedding, topK |-> topK,
                             items |-> << >>]
               ELSE \E found \in searchMemories(e.p, e.d, roomId, tripCode, queryEmbedding, topK) :
                      last' = [op |-> "searchMemories",
                               result |-> IF found.isNull THEN "null" ELSE "list",
                               mode |-> e.p.vectorMode,
                               roomId |-> roomId, tripCode |-> tripCode,
                               queryEmbedding |-> queryEmbedding, topK |-> topK,
                               items |-> found.items]
    /\ UNCHANGED <<env, now, pass, restarts, uuid>>

\* POST /api/memories/search
SearchRoute(roomId, tripCode, queryEmbedding, topKRaw) ==
    /\ Serving
    /\ \E topK \in {IF IsFinite(topKRaw) THEN Max(1, Min(100, Floor(topKRaw))) ELSE 20} :
       \E e \in {memEnsurePreparedStatements(proc, db, env.extPath, FALSE)} :
          IF ~isVectorModeEnabled(proc)
          THEN /\ last' = [op |-> "POST /api/memories/search", status |-> 501,
                           mode |-> proc.vectorMode]
               /\ UNCHANGED <<proc, db>>
          ELSE IF roomId = NULL \/ ~queryEmbedding.isArray \/ Len(queryEmbedding.values) = 0
          THEN /\ last' = [op |-> "POST /api/memories/search", status |-> 400,
                           mode |-> proc.vectorMode]
               /\ UNCHANGED <<proc, db>>
          ELSE /\ proc' = e.p
               /\ db' = e.d
               /\ IF e.threw
                  THEN last' = [op |-> "POST /api/memories/search", status |-> 500,
                                mode |-> proc.vectorMode]
                  \* res.json({ ok: true, items: items || [] })
                  ELSE \E found \in searchMemories(e.p, e.d, roomId, tripCode,
                                                    queryEmbedding.values, topK) :
                         last' = [op |-> "POST /api/memories/search", status |-> 200,
                                  mode |-> proc.vectorMode,
                                  items |-> found.items]
    /\ UNCHANGED <<env, now, pass, restarts, uuid>>

\* POST /api/memories
PostMemory(body, cap) ==
    /\ Serving
    /\ body.memory_id = NULL => uuid < cap
    /\ \E memoryId \in {IF body.memory_id # NULL THEN body.memory_id ELSE randomUUID} :
       \E payload \in {[ memory_id |-> memoryId,
                          room_id |-> body.room_id,
                          trip_code |-> body.trip_code,
                          display_name |-> body.display_name,
                          importance |-> RouteImportance(body.importance),
                          ttl_days |-> RouteTtlDays(body.ttl_days),
                          embedding |-> body.embedding ]} :
       \E r \in {insertMemory(proc, db, env.extPath, FALSE, payload, now)} :
          IF ~body.hasText
          THEN /\ last' = [op |-> "POST /api/memories", status |-> 400, body |-> body]
               /\ UNCHANGED <<proc, db, uuid>>
          ELSE /\ uuid' = IF body.memory_id = NULL THEN uuid + 1 ELSE uuid
               /\ proc' = r.p
               /\ db' = r.d
               /\ last' = [op |-> "POST /api/memories",
                           status |-> IF r.threw THEN 500 ELSE 200,
                           memory_id |-> memoryId,
                           body |-> body,
                           checkFailed |-> ~CheckPasses(r.d.memoriesTable, payload.importance),
                           fkFailed |-> ~r.fk]
    /\ UNCHANGED <<env, now, pass, restarts>>

\* POST /api/ingest-message: the identity heartbeat
IngestMessage(roomId, tripCode, displayName) ==
    /\ Serving
    /\ IF tripCode = NULL
       THEN /\ last' = [op |-> "POST /api/ingest-message", status |-> 200, skipped |-> TRUE,
                        room_id |-> roomId, trip_code |-> tripCode,
                        display_name |-> displayName]
            /\ UNCHANGED <<proc, db>>
       ELSE IF roomId = NULL \/ displayName = ""
       THEN /\ last' = [op |-> "POST /api/ingest-message", status |-> 400, skipped |-> FALSE,
                        room_id |-> roomId, trip_code |-> tripCode,
                        display_name |-> displayName]
            /\ UNCHANGED <<proc, db>>
       ELSE \E e \in {profEnsurePreparedStatements(proc, db, env.extPath, FALSE)} :
            \E d1 \in {upsertRoomStmt(e.d, roomId, now)} :
               /\ proc' = e.p
               /\ db' = upsertUserStmt(d1, tripCode, displayName, now)
               /\ last' = [op |-> "POST /api/ingest-message", status |-> 200, skipped |-> FALSE,
                           room_id |-> roomId, trip_code |-> tripCode,
                           display_name |-> displayName]
    /\ UNCHANGED <<env, now, pass, restarts, uuid>>

\* POST /api/profile/upsert: direct overwrite of a profile
ProfileUpsert(tripCode, profile) ==
    /\ Serving
    /\ IF tripCode = NULL
       THEN /\ last' = [op |-> "POST /api/profile/upsert", status |-> 400,
                        trip_code |-> tripCode]
            /\ UNCHANGED <<proc, db>>
       ELSE \E e \in {profEnsurePreparedStatements(proc, db, env.extPath, FALSE)} :
            \E d1 \in {upsertUserStmt(e.d, tripCode, "", now)} :
               /\ proc' = e.p
               /\ db' = upsertProfileStmt(d1, tripCode, profile, now)
               /\ last' = [op |-> "POST /api/profile/upsert", status |-> 200,
                           trip_code |-> tripCode]
    /\ UNCHANGED <<env, now, pass, restarts, uuid>>

\* getProfileByTrip(tripCode) || {} : no row, '{}' and text that does not
\* parse all read as the object {}
getProfileByTrip_IgnoresStored(d, tripCode) == EmptyProfileObject

getProfileByTrip(d, tripCode) ==
    IF tripCode \notin DOMAIN d.user_profile THEN EmptyProfileObject
    ELSE LET json == d.user_profile[tripCode].profile_json
         IN IF "type" \in DOMAIN json THEN json ELSE EmptyProfileObject

maxInputChars == 200

\* the request body of POST /api/profile/from-message
FromMessageBody(r, t, dn, m) ==
    [room_id |-> r, trip_code |-> t, display_name |-> dn, message_text |-> m]

\* why the route answers before it writes anything ("none": it goes on)
FromMessageRejection_NoLengthLimit(body) ==
    IF body.trip_code = NULL THEN "missing_trip_code"
    ELSE IF body.display_name \in {NULL, NotAString, ""} THEN "display_name is required"
    ELSE IF ~body.message_text.isString THEN "message_text is required"
    ELSE IF ~parseSetProfileInput(body.message_text).matched THEN "not_setprofile_command"
    ELSE IF parseSetProfileInput(body.message_text).content.chars = 0
         THEN "empty_profile_content"
    ELSE "none"

FromMessageRejection(body) ==
    IF body.trip_code = NULL THEN "missing_trip_code"
    ELSE IF body.display_name \in {NULL, NotAString, ""} THEN "display_name is required"
    ELSE IF ~body.message_text.isString THEN "message_text is required"
    ELSE IF ~parseSetProfileInput(body.message_text).matched THEN "not_setprofile_command"
    ELSE IF parseSetProfileInput(body.message_text).content.chars = 0
         THEN "empty_profile_content"
    ELSE IF parseSetProfileInput(body.message_text).content.chars > maxInputChars
         THEN "profile_content_too_long"
    ELSE "none"

\* POST /api/profile/from-message up to its await: validation, the room and
\* user upserts, and the call of the extractor, which throws at once
\* without DEEPSEEK_API_KEY
ProfileFromMessage(body) ==
    /\ Serving
    /\ pass.pc = "idle"
    /\ \E why \in {FromMessageRejection(body)} :
       IF why # "none"
       THEN /\ last' = [op |-> "POST /api/profile/from-message",
                        status |-> IF why \in {"display_name is required",
                                               "message_text is required"}
                                   THEN 400 ELSE 200,
                        updated |-> FALSE, reason |-> why, body |-> body]
            /\ UNCHANGED <<proc, db, pass>>
       ELSE \E e \in {profEnsurePreparedStatements(proc, db, env.extPath, FALSE)} :
            \E d1 \in {IF body.room_id # NULL THEN upsertRoomStmt(e.d, body.room_id, now)
                        ELSE e.d} :
               /\ proc' = e.p
               /\ db' = upsertUserStmt(d1, body.trip_code, body.display_name, now)
               /\ IF env.apiKey
                  THEN /\ pass' = [pc |-> "extracting", body |-> body, now |-> now]
                       /\ last' = [op |-> "POST /api/profile/from-message",
                                   status |-> 0, updated |-> FALSE,
                                   reason |-> "awaiting", body |-> body]
                  ELSE /\ pass' = pass
                       /\ last' = [op |-> "POST /api/profile/from-message",
                                   status |-> 500, updated |-> FALSE,
                                   reason |-> "DEEPSEEK_API_KEY is missing",
                                   body |-> body]
    /\ UNCHANGED <<env, now, restarts, uuid>>

\* the extractor: the call rejects, or the reply carries this content
\* (text = content || '{}', JSON.parse, validateAndNormalizeExtractedProfile)
ExtractOfContent(content, sourceText) ==
    LET text == IF content.present THEN content.text
                ELSE Text("json", EmptyProfileObject)
    IN IF text.kind # "json" THEN [threw |-> TRUE, profile |-> EmptyProfileObject]
       ELSE validateAndNormalizeExtractedProfile(text.value, sourceText)

\* POST /api/profile/from-message after its await: read, merge, write
ExtractorReturns(outcome) ==
    /\ pass.pc = "extracting"
    /\ pass' = IdlePass
    /\ \E body \in {pass.body} :
       \E x \in {IF outcome.threw THEN [threw |-> TRUE, profile |-> EmptyProfileObject]
                  ELSE ExtractOfContent(outcome.content,
                         parseSetProfileInput(body.message_text).content)} :
       IF x.threw
       THEN /\ last' = [op |-> "POST /api/profile/from-message", status |-> 500,
                        updated |-> FALSE, reason |-> "extractor", body |-> body]
            /\ UNCHANGED <<proc, db>>
       ELSE \E oldProfile \in {getProfileByTrip(db, body.trip_code)} :
            \E mergedProfile \in {mergeProfile(oldProfile, x.profile,
                                                body.display_name, pass.now)} :
               /\ db' = upsertProfileStmt(db, body.trip_code, mergedProfile, pass.now)
               /\ last' = [op |-> "POST /api/profile/from-message", status |-> 200,
                           updated |-> TRUE, reason |-> "merged", body |-> body,
                           oldProfile |-> oldProfile, fragment |-> x.profile,
                           now |-> pass.now, profile_json |-> mergedProfile]
               /\ UNCHANGED proc
    /\ UNCHANGED <<env, now, restarts, uuid>>

(***************************************************************************)
(* POST /api/profile/from-message, several requests at a time: every       *)
(* request that awaits the extractor keeps its own body and now            *)
(***************************************************************************)
MaxInFlight == 2

InFlight(ps) == IF ps.pc = "requests" THEN ps.inFlight ELSE {}

PassWith(requests) ==
    IF requests = {} THEN IdlePass ELSE [pc |-> "requests", inFlight |-> requests]

\* the handler up to its await, while other requests may be awaiting
ConcurrentProfileFromMessage(body) ==
    /\ Serving
    /\ pass.pc \in {"idle", "requests"}
    /\ Cardinality(InFlight(pass)) < MaxInFlight
    /\ [body |-> body, now |-> now] \notin InFlight(pass)
    /\ \E why \in {FromMessageRejection(body)} :
       IF why # "none"
       THEN /\ last' = [op |-> "POST /api/profile/from-message",
                        status |-> IF why \in {"display_name is required",
                                               "message_text is required"}
                                   THEN 400 ELSE 200,
                        updated |-> FALSE, reason |-> why, body |-> body]
            /\ UNCHANGED <<proc, db, pass>>
       ELSE \E e \in {profEnsurePreparedStatements(proc, db, env.extPath, FALSE)} :
            \E d1 \in {IF body.room_id # NULL THEN upsertRoomStmt(e.d, body.room_id, now)
                        ELSE e.d} :
               /\ proc' = e.p
               /\ db' = upsertUserStmt(d1, body.trip_code, body.display_name, now)
               /\ IF env.apiKey
                  THEN /\ pass' = PassWith(InFlight(pass)
                                             \cup {[body |-> body, now |-> now]})
                       /\ last' = [op |-> "POST /api/profile/from-message",
                                   status |-> 0, updated |-> FALSE,
                                   reason |-> "awaiting", body |-> body]
                  ELSE /\ pass' = pass
                       /\ last' = [op |-> "POST /api/profile/from-message",
                                   status |-> 500, updated |-> FALSE,
                                   reason |-> "DEEPSEEK_API_KEY is missing",
                                   body |-> body]
    /\ UNCHANGED <<env, now, restarts, uuid>>

\* the handler of one awaiting request after its await: read, merge, write
ConcurrentExtractorReturns(req, outcome) ==
    /\ req \in InFlight(pass)
    /\ pass' = PassWith(InFlight(pass) \ {req})
    /\ \E body \in {req.body} :
       \E x \in {IF outcome.threw THEN [threw |-> TRUE, profile |-> EmptyProfileObject]
                  ELSE ExtractOfContent(outcome.content,
                         parseSetProfileInput(body.message_text).content)} :
       IF x.threw
       THEN /\ last' = [op |-> "POST /api/profile/from-message", status |-> 500,
                        updated |-> FALSE, reason |-> "extractor", body |-> body]
            /\ UNCHANGED <<proc, db>>
       ELSE \E oldProfile \in {getProfileByTrip(db, body.trip_code)} :
            \E mergedProfile \in {mergeProfile(oldProfile, x.profile,
                                                body.display_name, req.now)} :
               /\ db' = upsertProfileStmt(db, body.trip_code, mergedProfile, req.now)
               /\ last' = [op |-> "POST /api/profile/from-message", status |-> 200,
                           updated |-> TRUE, reason |-> "merged", body |-> body,
                           oldProfile |-> oldProfile, fragment |-> x.profile,
                           now |-> req.now, profile_json |-> mergedProfile]
               /\ UNCHANGED proc
    /\ UNCHANGED <<env, now, restarts, uuid>>

(***************************************************************************)
(* POST /api/memories/consolidate                                          *)
(***************************************************************************)
\* config.mjs defines no memory.digestSourceMinImportance,
\* memory.digestSourceMaxItemsPerUser or memory.digestPruneBelowImportance:
\* the fallback handed to the helpers is undefined
Undefined == NaN

\* helpers.mjs toPositiveLimitWithMax
toPositiveLimitWithMax(rawValue, fallback, max) ==
    IF ~IsFinite(rawValue) THEN fallback
    ELSE Int2Raw(Max(1, Min(max, Floor(rawValue))))

BoundedMaxItemsPerUser_Default(raw) == 60

\* Math.max(1, Math.min(200, Math.floor(Number(maxItemsPerUser) || 60)))
BoundedMaxItemsPerUser(raw) ==
    LET n == IF IsFinite(raw) /\ raw.halves # 0 THEN Floor(raw) ELSE 60
    IN Max(1, Min(200, n))

TripsAsc == << "abc", "u2", "zed" >>

\* the WHERE clause of listMemoriesForDigestStmt, for one trip_code
listMemoriesForDigestStmt(d, tripCode, boundedMin, t) ==
    {m \in d.memories :
        /\ m.trip_code # NULL
        /\ m.trip_code = tripCode
        /\ m.importance >= boundedMin
        /\ NotExpired(m, t)}

\* the Maps listMemoriesGroupedByTripForDigest may return, as the sequence
\* of their entries (trip_code ASC)
listMemoriesGroupedByTripForDigest(d, minImportanceRaw, maxItemsRaw, t) ==
    LET boundedMin == BoundedImportance(minImportanceRaw)
        boundedMax == BoundedMaxItemsPerUser(maxItemsRaw)
        rowsOf(trip) == listMemoriesForDigestStmt(d, trip, boundedMin, t)
        present == SelectSeq(TripsAsc, LAMBDA trip : rowsOf(trip) # {})
        buckets(trip) == {Take(q, boundedMax) : q \in Orderings(rowsOf(trip))}
        all == UNION {buckets(present[i]) : i \in 1..Len(present)}
    IN { [i \in 1..Len(present) |-> [tripCode |-> present[i], items |-> g[i]]]
           : g \in {h \in [1..Len(present) -> all] :
                      \A i \in 1..Len(present) : h[i] \in buckets(present[i])} }

ConsolidateReport_NoPrune(p, d, ps) ==
    [ d |-> d,
      last |-> [ op |-> "consolidated", status |-> 200,
                 groups |-> [i \in 1..Len(ps.grouped) |-> ps.grouped[i].tripCode],
                 written |-> ps.written,
                 responses |-> ps.responses,
                 body |-> ps.body,
                 prunes |-> ps.prunes - 1,
                 report |-> [ ok |-> TRUE,
                              processed_users |-> ps.processedUsers,
                              updated_users |-> ps.updatedUsers,
                              skipped_users |-> ps.skippedUsers,
                              prune_below_importance |-> ps.pruneBelowImportance,
                              pruned_memories |-> 0,
                              pruned_vectors |-> 0,
                              errors |-> ps.errors ] ] ]

\* the end of the handler: one prune, then the report
ConsolidateReport(p, d, ps) ==
    LET pr == pruneLowImportanceMemoriesTx(d, ps.pruneBelowImportance)
    IN [ d |-> pr.d,
         last |-> [ op |-> "consolidated", status |-> 200,
                    groups |-> [i \in 1..Len(ps.grouped) |-> ps.grouped[i].tripCode],
                    written |-> ps.written,
                    responses |-> ps.responses,
                    body |-> ps.body,
                    prunes |-> ps.prunes,
                    report |-> [ ok |-> TRUE,
                                 processed_users |-> ps.processedUsers,
                                 updated_users |-> ps.updatedUsers,
                                 skipped_users |-> ps.skippedUsers,
                                 prune_below_importance |-> ps.pruneBelowImportance,
                                 pruned_memories |-> pr.removedMemories,
                                 pruned_vectors |-> pr.removedVectors,
                                 errors |-> ps.errors ] ] ]

CallsStartedAt_AllAtOnce(grouped, index) ==
    IF index = 1 THEN Len(grouped) ELSE 0

\* summarizer calls started when the loop reaches the user at index: the
\* loop body awaits its call, so the iteration starts one call
CallsStartedAt(grouped, index) == 1

SkipUser_NoErrorEntry(ps, tripCode) ==
    [ps EXCEPT !.skippedUsers = @ + 1]

\* the catch of the loop body
SkipUser(ps, tripCode) ==
    [ps EXCEPT !.skippedUsers = @ + 1, !.errors = Append(@, tripCode)]

\* the handler up to its first await
ConsolidateStart(body) ==
    /\ Serving
    /\ pass.pc = "idle"
    /\ IF ~env.apiKey
       THEN /\ last' = [op |-> "POST /api/memories/consolidate", status |-> 500]
            /\ UNCHANGED <<proc, db, pass>>
       ELSE
         LET sourceMinImportance == toImportanceThreshold(body.source_min_importance, Undefined)
             sourceMaxItemsPerUser ==
                 toPositiveLimitWithMax(body.source_max_items_per_user, Undefined, 200)
             pruneBelowImportance == toImportanceThreshold(body.prune_below_importance, Undefined)
             e == memEnsurePreparedStatements(proc, db, env.extPath, FALSE)
         IN /\ proc' = e.p
            /\ IF e.threw
               THEN /\ db' = e.d
                    /\ pass' = pass
                    /\ last' = [op |-> "POST /api/memories/consolidate", status |-> 500]
               ELSE \E grouped \in listMemoriesGroupedByTripForDigest(
                                       e.d, sourceMinImportance, sourceMaxItemsPerUser, now) :
                      LET ps == [ pc |-> "awaiting",
                                  grouped |-> grouped,
                                  index |-> 1,
                                  now |-> now,
                                  body |-> body,
                                  pruneBelowImportance |-> pruneBelowImportance,
                                  processedUsers |-> 1,
                                  updatedUsers |-> 0,
                                  skippedUsers |-> 0,
                                  errors |-> << >>,
                                  written |-> EmptyFn,
                                  responses |-> << >>,
                                  inFlight |-> CallsStartedAt(grouped, 1),
                                  prunes |-> 0 ]
                          fin == ConsolidateReport(e.p, e.d,
                                    [ps EXCEPT !.processedUsers = 0, !.inFlight = 0,
                                               !.index = 0, !.prunes = 1])
                      IN IF grouped = << >>
                         THEN /\ db' = fin.d
                              /\ pass' = IdlePass
                              /\ last' = fin.last
                         ELSE /\ db' = e.d
                              /\ pass' = ps
                              /\ last' = [op |-> "POST /api/memories/consolidate",
                                          status |-> 0]
    /\ UNCHANGED <<env, now, restarts, uuid>>

\* the per-user try/catch: a rejected summarizer promise is caught inside the
\* loop body and does not reach the handler's outer catch
caughtInLoop_Rethrown(threw) == ~threw

caughtInLoop(threw) == TRUE

\* summarizeUserMemoryDigest settles for the current user: the rest of that
\* loop iteration and, up to the next await, the start of the next one
SummarizerReturns(outcome) ==
    /\ pass.pc = "awaiting"
    /\ IF ~caughtInLoop(outcome.threw)
       THEN /\ pass' = IdlePass
            /\ last' = [op |-> "POST /api/memories/consolidate", status |-> 500]
            /\ UNCHANGED <<proc, db>>
       ELSE
       LET tripCode == pass.grouped[pass.index].tripCode
           digest == DigestOfContent(outcome.content, pass.now)
           d1 == IF outcome.threw THEN db
                 ELSE upsertMemoryDigestStmt(
                        upsertUserStmt(db, tripCode, "", pass.now),
                        tripCode, digest, pass.now)
           p1 == IF outcome.threw THEN proc ELSE [proc EXCEPT !.profPrepared = TRUE]
           ps0 == [pass EXCEPT !.responses = Append(@, outcome), !.inFlight = @ - 1]
           ps1 == IF outcome.threw
                  THEN SkipUser(ps0, tripCode)
                  ELSE [ps0 EXCEPT !.updatedUsers = @ + 1,
                                   !.written = Put(@, tripCode, digest)]
           fin == ConsolidateReport(p1, d1, [ps1 EXCEPT !.prunes = @ + 1])
       IN /\ proc' = p1
          /\ IF pass.index < Len(pass.grouped)
             THEN /\ db' = d1
                  /\ pass' = [ps1 EXCEPT !.index = @ + 1,
                                         !.processedUsers = @ + 1,
                                         !.inFlight = @ + CallsStartedAt(pass.grouped,
                                                                         pass.index + 1)]
                  /\ last' = [op |-> "summarizer", status |-> 0]
             ELSE /\ db' = fin.d
                  /\ pass' = IdlePass
                  /\ last' = fin.last
    /\ UNCHANGED <<env, now, restarts, uuid>>

(***************************************************************************)
(* POST /api/reply/deepseek: the write-back of extracted memories          *)
(***************************************************************************)
\* services/reply/client.mjs clampImportance
clampImportance(value) ==
    IF ~IsFinite(value) THEN defaultImportance
    ELSE Max(minImportance, Min(maxImportance, Floor(value)))

\* normalizeMemoryItems: items without text are dropped, importance clamped
RECURSIVE normalizeMemoryItems(_)
normalizeMemoryItems(items) ==
    IF items = << >> THEN << >>
    ELSE LET item == Head(items)
             rest == normalizeMemoryItems(Tail(items))
         IN IF ~item.hasText THEN rest
            ELSE << [hasText |-> TRUE, importance |-> clampImportance(item.importance)] >>
                 \o rest

\* memoryItemsToStore: the filter and the map of replyRoutes.mjs
RECURSIVE memoryItemsToStore(_, _, _)
memoryItemsToStore(candidateItems, storeMinImportance, targetTrip) ==
    IF candidateItems = << >> THEN << >>
    ELSE LET item == Head(candidateItems)
             rest == memoryItemsToStore(Tail(candidateItems), storeMinImportance, targetTrip)
             \* importance < undefined is false
             below == IsFinite(storeMinImportance)
                      /\ item.importance < Floor(storeMinImportance)
         IN IF ~item.hasText \/ below \/ targetTrip = NULL THEN rest
            ELSE << Floor(toImportanceThreshold(Int2Raw(item.importance),
                                                Int2Raw(defaultImportance))) >> \o rest

\* the insertMemory loop; statements are prepared, ids are fresh
RECURSIVE InsertAll(_, _, _, _, _)
InsertAll(p, d, importances, k, rq) ==
    IF importances = << >> THEN [p |-> p, d |-> d, threw |-> FALSE]
    ELSE LET r == insertMemoryTx(p, d,
                    [ memory_id |-> IdIndex[k + 1],
                      room_id |-> rq.room_id,
                      trip_code |-> rq.targetTrip,
                      display_name |-> rq.displayName,
                      importance |-> Head(importances),
                      ttl_days |-> defaultTtlDays,
                      embedding |-> NoEmbedding ], rq.now)
         IN IF r.threw THEN r
            ELSE InsertAll(r.p, r.d, Tail(importances), k + 1, rq)

\* The handler.  What it reads before awaiting the model goes only into the
\* prompt, and it writes only after the await: rawItems is the model's answer.
\* config.mjs defines no reply.pipelineMode: reading it throws.
ReplyRoute(body, rawItems, cap) ==
    /\ Serving
    /\ IF ~env.apiKey \/ ~body.pipelineModeGiven
       THEN /\ last' = [op |-> "POST /api/reply/deepseek", status |-> 500,
                        rawItems |-> << >>, stored |-> << >>]
            /\ UNCHANGED <<proc, db, uuid>>
       ELSE
         LET storeMinImportance ==
                 toImportanceThreshold(body.memory_store_min_importance, Undefined)
             candidateItems == normalizeMemoryItems(rawItems)
             toStore == memoryItemsToStore(candidateItems, storeMinImportance,
                                           body.targetTrip)
             finalMemoryItems == IF body.memory_store_enabled THEN toStore ELSE << >>
             r == InsertAll(proc, db, finalMemoryItems, uuid,
                            [ targetTrip |-> body.targetTrip, room_id |-> body.room_id,
                              displayName |-> body.targetSender, now |-> now ])
         IN /\ uuid + Len(finalMemoryItems) <= cap
            /\ uuid' = uuid + Len(finalMemoryItems)
            /\ proc' = r.p
            /\ db' = r.d
            /\ last' = [op |-> "POST /api/reply/deepseek",
                        status |-> IF r.threw THEN 500 ELSE 200,
                        rawItems |-> rawItems,
                        stored |-> finalMemoryItems]
    /\ UNCHANGED <<env, now, pass, restarts>>

(***************************************************************************)
(* Inputs                                                                   *)
(***************************************************************************)
TripOrNull == Trips \cup {NULL}
RoomOrNull == Rooms \cup {NULL}

PostBody(h, id, r, t, i, ttl, e) ==
    [ hasText |-> h, memory_id |-> id, room_id |-> r, trip_code |-> t,
      display_name |-> "", importance |-> i, ttl_days |-> ttl, embedding |-> e ]

ConsolidateBody(a, b, c) ==
    [ source_min_importance |-> a, source_max_items_per_user |-> b,
      prune_below_importance |-> c ]

ReplyBody(t, r, m, en, g) ==
    [ targetTrip |-> t, room_id |-> r, targetSender |-> "Al",
      memory_store_min_importance |-> m, memory_store_enabled |-> en,
      pipelineModeGiven |-> g ]

(***************************************************************************)
(* Spec: the schema lifecycle and the repositories over every database,    *)
(* every extension setting and a restart of the process                    *)
(***************************************************************************)
LifeEnvs == Envs(ExtensionPaths, {TRUE})

PostBodies ==
    { PostBody(TRUE, id, "r1", "abc", i, NaN, e)
        : id \in {NULL} \cup OrphanVectors(db), i \in {Num(24)},
          e \in {NoEmbedding, Embedding(<< 1 >>)} }
    \cup { PostBody(FALSE, NULL, NULL, NULL, NaN, NaN, NoEmbedding) }

Init == InitWith(InitialDatabases, LifeEnvs)

Next ==
    \/ ServerStartup
    \/ Restart(LifeEnvs)
    \/ CallInitDb
    \/ CallCleanup
    \/ \E k \in {Num(10)} : CallPrune(k)
    \/ \E t \in {"abc"} : CallList(t, NaN, NaN)
    \/ \E t \in TripOrNull : CallSearch("r1", t, << 1 >>, 1)
    \/ \E r \in RoomOrNull, q \in {NoEmbedding, Embedding(<< 1 >>)} :
          SearchRoute(r, "abc", q, NaN)
    \/ \E body \in PostBodies : PostMemory(body, MaxInserts)
    \/ \E r \in RoomOrNull, t \in {"u2", NULL} : IngestMessage(r, t, "Al")
    \/ \E t \in {"u2", NULL} : ProfileUpsert(t, EmptyObject)

Spec == Init /\ [][Next]_vars

(***************************************************************************)
(* SpecPass: every writing request of a serving process in fallback mode,  *)
(* with the consolidation pass interleaved                                 *)
(***************************************************************************)
PassEnvs == Envs({"unset"}, BOOLEAN)

PassPostBodies ==
    { PostBody(TRUE, NULL, "r1", "abc", Num(24), NaN, NoEmbedding),
      PostBody(TRUE, NULL, NULL, "u2", Num(-3), NaN, NoEmbedding),
      PostBody(TRUE, NULL, "r1", NULL, Num(9), NaN, NoEmbedding) }

ReplyItems ==
    { << [hasText |-> TRUE, importance |-> i] >> : i \in {NaN, Num(30)} }

InitPass == InitWith(InitialDatabases, PassEnvs)

NextPass ==
    \/ ServerStartup
    \/ \E body \in PassPostBodies : PostMemory(body, MaxInserts)
    \/ IngestMessage("r1", "u2", "Al")
    \/ ProfileUpsert("u2", EmptyObject)
    \/ \E c \in {NaN, Num(10)} : ConsolidateStart(ConsolidateBody(NaN, NaN, c))
    \/ \E o \in SummarizerOutcomes : SummarizerReturns(o)
    \/ \E items \in ReplyItems :
          ReplyRoute(ReplyBody("u2", NULL, NaN, TRUE, TRUE), items, MaxInserts)

SpecPass == InitPass /\ [][NextPass]_vars

(***************************************************************************)
(* SpecStore: the memories repository of a serving process in fallback     *)
(* mode, with time passing                                                 *)
(***************************************************************************)
StoreEnvs == Envs({"unset"}, {TRUE})

StorePostBodies ==
    { PostBody(TRUE, NULL, "r1", "abc", Num(4), NaN, NoEmbedding),
      PostBody(TRUE, NULL, "r1", "abc", Num(14), Num(2), NoEmbedding),
      PostBody(TRUE, NULL, "r1", "abc", Num(18), NaN, NoEmbedding),
      PostBody(TRUE, NULL, "r1", NULL, Num(4), NaN, NoEmbedding) }

InitStore == InitWith({FreshDb, CurrentDb}, StoreEnvs)

NextStore ==
    \/ ServerStartup
    \/ Tick
    \/ CallCleanup
    \/ \E k \in {Num(10), Num(16)} : CallPrune(k)
    \/ \E q \in {<< Num(2), Num(20) >>, << Num(14), Num(2) >>} : CallList("abc", q[1], q[2])
    \/ \E body \in StorePostBodies : PostMemory(body, MaxStoreInserts)

SpecStore == InitStore /\ [][NextStore]_vars

(***************************************************************************)
(* SpecInsert: insertMemory with payloads that pass and payloads that      *)
(* fail, in both vector modes, with time passing                           *)
(***************************************************************************)
InsertEnvs == Envs({"unset", "good"}, {TRUE})

Payload(id, r, t, i, e) ==
    [ memory_id |-> id, room_id |-> r, trip_code |-> t, display_name |-> "Al",
      importance |-> i, ttl_days |-> defaultTtlDays, embedding |-> e ]

EmptyEmbedding == [isArray |-> TRUE, values |-> << >>]

\* m1 comes with an embedding, m2 with none, m4 with an empty one; m3 breaks
\* the importance CHECK; the last ones reuse the id of a stored memory
InsertPayloads ==
    { Payload("m1", "r1", "abc", 5, Embedding(<< 1 >>)),
      Payload("m2", "r1", "u2", 5, NoEmbedding),
      Payload("m3", "r1", "u2", 11, Embedding(<< 1 >>)),
      Payload("m4", NULL, "abc", 5, EmptyEmbedding) }
    \cup { Payload(m.memory_id, "r1", "u2", 5, Embedding(<< 2 >>)) : m \in db.memories }

InitInsert == InitWith({FreshDb, CurrentDb}, InsertEnvs)

NextInsert ==
    \/ ServerStartup
    \/ Tick
    \/ CallCleanup
    \/ \E payload \in InsertPayloads : CallInsertMemory(payload)

SpecInsert == InitInsert /\ [][NextInsert]_vars

(***************************************************************************)
(* SpecProfile: the profile routes of a serving process, with stored       *)
(* profiles written by a direct overwrite and by the merge                 *)
(***************************************************************************)
(* SpecMigrate: processes started on databases of the earlier data layer   *)
(***************************************************************************)
MigrateDatabases == {FreshDb, LegacyDb, LegacyOrphanDb, LegacyVecDb, CurrentDb}

InitMigrate == InitWith(MigrateDatabases, LifeEnvs)

NextMigrate ==
    \/ ServerStartup
    \/ Restart(LifeEnvs)
    \/ CallInitDb
    \/ CallCleanup
    \/ Tick
    \/ \E body \in {PostBody(FALSE, "r1", "abc", NULL, Num(24), NaN, NoEmbedding)} :
          PostMemory(body, MaxInserts)

SpecMigrate == InitMigrate /\ [][NextMigrate]_vars

(***************************************************************************)
ProfileEnvs == Envs({"unset"}, BOOLEAN)

\* profiles a direct overwrite stores: one as the merge writes them, one
\* with blank, padded and non-string scalars, repeated and non-string list
\* entries and a key of its own, and a JSON array
TidyProfile ==
    ProfileObject("Al", NULL, NULL, NULL, Arr(<< "Tea" >>), Arr(<< >>), << 0 >>, "Al", NULL)
UntidyProfile ==
    ProfileObject(" Al ", NotAString, " ", NULL,
                  Arr(<< "Tea", "tea", "ni", NotAString >>), NotAnArray,
                  NullInt, NULL, "x")
DirectProfiles == {EmptyObject, TidyProfile, UntidyProfile, NotAProfileObject}

\* what the extraction model answers: an object naming a language and likes
\* (some of them noise, one that the message does not contain), an object
\* that names nothing, and an array
RawFragmentA ==
    ProfileObject(NULL, "en ", NULL, NotAString,
                  Arr(<< "tea", " @bot", "ni@liam", "Jazz", "You", "jazz", "rock", " " >>),
                  Arr(<< "You", "rock" >>), NullInt, NULL, NULL)
RawFragmentEmpty ==
    ProfileObject(NULL, " ", NULL, NULL, Arr(<< >>), NotAnArray, NullInt, NULL, NULL)

ExtractorOutcomes ==
    { Threw,
      Replied(NoContent),
      Replied(Content(Text("noBraces", JsonNull))),
      Replied(Content(Text("json", NotAProfileObject))),
      Replied(Content(Text("json", RawFragmentEmpty))),
      Replied(Content(Text("json", RawFragmentA))) }

\* "setprofile I like tea and Jazz, @bot, you", an empty command, a command
\* longer than the limit, and a message that is no command
Messages ==
    { Message(TRUE, Source(40, {"tea", "jazz", "@bot", "you", "ni@liam", "en"})),
      Message(TRUE, Source(0, {})),
      Message(TRUE, Source(maxInputChars + 1, {"tea"})),
      Message(FALSE, Source(12, {"tea"})) }

FromMessageBodies ==
    { FromMessageBody("r1", "u2", "Bo", m) : m \in Messages \cup {NoMessage} }
    \cup { FromMessageBody(NULL, t, dn, Message(TRUE, Source(40, {"tea"})))
           : t \in {"u2", NULL}, dn \in {"Bo", NULL} }

InitProfile == InitWith({FreshDb, CurrentDb}, ProfileEnvs)

NextProfile ==
    \/ ServerStartup
    \/ Tick
    \/ \E t \in {"u2", NULL}, profile \in DirectProfiles : ProfileUpsert(t, profile)
    \/ \E body \in FromMessageBodies : ProfileFromMessage(body)
    \/ \E o \in ExtractorOutcomes : ExtractorReturns(o)
    \/ \E r \in RoomOrNull, t \in {"u2", NULL}, dn \in {"Al", ""} :
          IngestMessage(r, t, dn)
    \/ PostMemory(PostBody(FALSE, NULL, NULL, NULL, NaN, NaN, NoEmbedding), MaxInserts)

SpecProfile == InitProfile /\ [][NextProfile]_vars

(***************************************************************************)
(* SpecTtl: memories posted with every kind of ttl_days                    *)
(***************************************************************************)
TtlInputs == { NaN, JsNull, PosInfinity, Num(-4), Num(0), Num(5), Num(6) }

TtlPostBodies ==
    { PostBody(TRUE, NULL, "r1", "abc", NaN, ttl, NoEmbedding) : ttl \in TtlInputs }

InitTtl == InitWith({FreshDb}, Envs({"unset"}, {TRUE}))

NextTtl ==
    \/ ServerStartup
    \/ Tick
    \/ CallCleanup
    \/ \E body \in TtlPostBodies : PostMemory(body, MaxInserts)

SpecTtl == InitTtl /\ [][NextTtl]_vars

(***************************************************************************)
(* SpecRepo: a store that holds memories of two users and of no user,      *)
(* read, consolidated, pruned and cleaned while time passes                *)
(***************************************************************************)
RepoDb ==
    [ FreshDb EXCEPT
      !.memoriesTable = CurrentMemoriesTable,
      !.profileSchema = "current",
      !.vecTable = "json",
      !.rooms = [r \in {"r1"} |-> 0],
      !.users = [t \in {"abc", "u2"} |-> [last_display_name |-> "Al", last_seen_at |-> 0]],
      !.user_profile = [t \in {"abc"} |->
          [ profile_json |-> TidyProfile, memory_digest_json |-> EmptyObject,
            updated_at |-> 0 ]],
      !.memories = { Mem("a1", "r1", "abc", 8, NullInt, 0),
                     Mem("a2", "r1", "abc", 3, <<1>>, 0),
                     Mem("a3", "r1", "abc", 8, NullInt, 0),
                     Mem("b1", "r1", "u2", 2, NullInt, 0),
                     Mem("n1", "r1", NULL, 1, <<1>>, 0) },
      !.memory_vec = [i \in {"a2"} |-> <<1>>] ]

RepoEnvs == Envs({"unset"}, {TRUE})

MaxRepoInserts == 1

RepoPostBodies ==
    { PostBody(TRUE, NULL, "r1", "zed", Num(4), NaN, NoEmbedding) }

RepoConsolidateBodies ==
    { ConsolidateBody(NaN, NaN, Num(12)),
      ConsolidateBody(Num(10), Num(2), Num(12)) }

RepoOutcomes ==
    { Threw, Replied(Content(Text("json", JsonObject(RawDigestA)))) }

InitRepo == InitWith({RepoDb}, RepoEnvs)

NextRepo ==
    \/ ServerStartup
    \/ Tick
    \/ CallCleanup
    \/ \E body \in RepoPostBodies : PostMemory(body, MaxRepoInserts)
    \/ \E body \in RepoConsolidateBodies : ConsolidateStart(body)
    \/ \E o \in RepoOutcomes : SummarizerReturns(o)

SpecRepo == InitRepo /\ [][NextRepo]_vars

(***************************************************************************)
(* SpecClamp: the two importance clamps applied to pairs of inputs         *)
(***************************************************************************)
MaxHalvesBelow == 6
MaxHalvesAbove == 26
\* -3, -2.5, ... 13, not a number, and the two infinities
ImportanceInputs ==
    { Num(h) : h \in -MaxHalvesBelow..MaxHalvesAbove } \cup {NaN, PosInfinity, NegInfinity}
\* the fallbacks the routes hand to toImportanceThreshold: a key config.mjs
\* does not define, and memory.defaultImportance
Fallbacks == {Undefined, Int2Raw(defaultImportance)}

\* two items of one model output through clampImportance, and the same two
\* values through toImportanceThreshold
ClampCalls(x, y, fallback) ==
    /\ last.op = "none"
    /\ last' = [ op |-> "clamp", x |-> x, y |-> y, fallback |-> fallback,
                 clamped |-> << clampImportance(x), clampImportance(y) >>,
                 threshold |-> << toImportanceThreshold(x, fallback),
                                  toImportanceThreshold(y, fallback) >> ]
    /\ UNCHANGED <<proc, db, env, now, pass, restarts, uuid>>

InitClamp == InitWith({FreshDb}, Envs({"unset"}, {TRUE}))

NextClamp ==
    \E x \in ImportanceInputs, y \in ImportanceInputs, fallback \in Fallbacks :
       ClampCalls(x, y, fallback)

SpecClamp == InitClamp /\ [][NextClamp]_vars

(***************************************************************************)
(* SpecDigest: consolidation passes over every kind of summarizer reply,   *)
(* on a new database and on one that holds a digest of an earlier pass     *)
(***************************************************************************)
DigestEnvs == Envs({"unset"}, {TRUE})

Names == << "n1", "n2", "n3", "n4", "n5", "n6", "n7", "n8", "n9", "n10",
            "n11", "n12", "n13", "n14" >>

\* more entries than any list keeps, with a repeat that differs in case,
\* a blank string and an element that is no object
RawDigestLong ==
    [ highlights |-> Arr(<< "Tea", " tea", " " >> \o Names),
      ongoing_threads |-> Arr(<< NotAnObject >>
                              \o [i \in 1..12 |-> Thread(Names[i], "open", "")]),
      stable_preferences |-> Arr(Names \o << "jazz", "jazz" >>) ]

\* an object whose keys hold other things than lists of strings
RawDigestOdd ==
    [ highlights |-> NotAnArray,
      ongoing_threads |-> Arr(<< NotAnObject, Thread(NotAString, "x", " tea"),
                                 Thread(" ", "x", NotAString) >>),
      stable_preferences |-> Arr(<< NotAString, " " >>) ]

DigestOutcomes ==
    { Threw,
      Replied(NoContent),
      Replied(Content(Text("noBraces", JsonNull))),
      Replied(Content(Text("badBraces", JsonNull))),
      Replied(Content(Text("json", JsonArray))),
      Replied(Content(Text("json", JsonObject(RawDigestA)))),
      Replied(Content(Text("wrapped", JsonObject(RawDigestLong)))),
      Replied(Content(Text("json", JsonObject(RawDigestOdd)))) }

\* a database in which an earlier pass stored a digest for "abc"
DigestedDb ==
    [ CurrentDb EXCEPT
      !.memory_vec = Restrict(@, {"old1"}),
      !.user_profile = [t \in {"abc"} |->
          [ profile_json |-> EmptyObject,
            memory_digest_json |-> normalizeDigest(JsonObject(RawDigestA), 0),
            updated_at |-> 0 ]] ]

DigestPostBodies ==
    { PostBody(TRUE, NULL, "r1", "abc", Num(10), NaN, NoEmbedding),
      PostBody(TRUE, NULL, "r1", "u2", Num(10), NaN, NoEmbedding) }

InitDigest == InitWith({FreshDb, DigestedDb}, DigestEnvs)

NextDigest ==
    \/ ServerStartup
    \/ \E body \in DigestPostBodies : PostMemory(body, MaxInserts)
    \/ ConsolidateStart(ConsolidateBody(NaN, NaN, NaN))
    \/ \E o \in DigestOutcomes : SummarizerReturns(o)
    \/ \E t \in {"abc", "u2"} : ProfileUpsert(t, TidyProfile)

SpecDigest == InitDigest /\ [][NextDigest]_vars

(***************************************************************************)
(* Claims                                                                  *)
(***************************************************************************)
PassEnded == last.op = "consolidated"

DigestsPersisted(written, d) ==
    \A t \in DOMAIN written :
        /\ t \in DOMAIN d.user_profile
        /\ d.user_profile[t].memory_digest_json = written[t]

\* C1: once a consolidation pass is awaiting its summarizer, every step
\* either leaves it waiting, moves it to the next user, or ends it after the
\* last user with an ok report that counts every group (each either updated
\* or skipped with one error entry) while every digest the pass wrote is in
\* user_profile; the pass never ends with an error, whoever's summarizer failed.
C1_PassNeverAborted ==
    [][ pass.pc = "awaiting" =>
          /\ pass'.pc = "awaiting" =>
                \/ pass' = pass
                \/ /\ pass'.index = pass.index + 1
                   /\ pass'.index <= Len(pass.grouped)
                   /\ pass'.grouped = pass.grouped
                   /\ DigestsPersisted(pass'.written, db')
          /\ pass'.pc = "idle" =>
                /\ pass.index = Len(pass.grouped)
                /\ PassEnded'
                /\ last'.report.ok
                /\ last'.report.processed_users = Len(pass.grouped)
                /\ last'.report.updated_users + last'.report.skipped_users
                     = last'.report.processed_users
                /\ Len(last'.report.errors) = last'.report.skipped_users
                /\ Cardinality(DOMAIN last'.written) = last'.report.updated_users
                /\ DigestsPersisted(last'.written, db') ]_vars

\* a pass over two users ended: the first user's summarizer failed, the
\* second user's digest is stored
C1_Witness ==
    /\ PassEnded
    /\ last.groups = << "abc", "u2" >>
    /\ last.report.errors = << "abc" >>
    /\ last.report.updated_users = 1
    /\ last.report.skipped_users = 1
    /\ "u2" \in DOMAIN last.written
    /\ db.user_profile["u2"].memory_digest_json = last.written["u2"]

PruneReturned == last.op = "pruneLowImportanceMemories" /\ last.result = "ok"
ListReturned == last.op = "listMemoriesByTrip" /\ last.result = "ok"

\* created_at + ttl_days days lies before the time t
Elapsed(m, t) ==
    m.ttl_days # NullInt /\ m.created_at + m.ttl_days[1] * 86400 < t

Importances(rows) == [i \in 1..Len(rows) |-> rows[i].importance]

C5_ListNeverReturnsExpired ==
    ListReturned =>
        \A i \in 1..Len(last.rows) : ~Elapsed(last.rows[i], now)

\* a listing for "abc" while an expired memory of "abc" that meets the
\* minimum importance is still stored (no cleanup since it expired)
C5_Witness ==
    /\ ListReturned
    /\ last.tripCode = "abc"
    /\ \E m \in db.memories :
          /\ m.trip_code = "abc"
          /\ Elapsed(m, now)
          /\ m.importance >= Floor(last.minImportance)
    /\ Len(last.rows) >= 1

\* importance DESC, last_used_at DESC, created_at DESC: a sorts strictly first
Precedes(a, b) ==
    \/ a.importance > b.importance
    \/ a.importance = b.importance /\ a.last_used_at > b.last_used_at
    \/ a.importance = b.importance /\ a.last_used_at = b.last_used_at
       /\ a.created_at > b.created_at

\* C6: listMemoriesByTrip(tripCode, minImportance, limit) returns distinct
\* stored memories of that trip_code with importance >= minImportance, in
\* the order importance DESC, last_used_at DESC, created_at DESC, exactly
\* min(limit, number of matching non-expired memories) of them, and no
\* matching memory left out sorts before a returned one.
C6_ListFilterSortLimit ==
    (ListReturned /\ IsFinite(last.minImportance) /\ IsFinite(last.limit)) =>
        LET rows == last.rows
            n == Len(rows)
            matching == {m \in db.memories :
                           /\ m.trip_code = last.tripCode
                           /\ m.importance >= Floor(last.minImportance)
                           /\ ~Elapsed(m, now)}
            returned == {rows[i] : i \in 1..n}
        IN /\ returned \subseteq matching
           /\ Cardinality(returned) = n
           /\ n = Min(Floor(last.limit), Cardinality(matching))
           /\ \A i, j \in 1..n : i < j => ~Precedes(rows[j], rows[i])
           /\ \A m \in matching \ returned : \A i \in 1..n : ~Precedes(m, rows[i])

\* a listing cut by its limit, with a stored memory of another owner and a
\* stored memory of the same user below the minimum
C6_Witness ==
    /\ ListReturned
    /\ last.limit = Num(2)
    /\ last.minImportance = Num(14)
    /\ Len(last.rows) = 1
    /\ Cardinality({m \in db.memories :
                      m.trip_code = last.tripCode /\ m.importance >= 7}) >= 2
    /\ \E m \in db.memories : m.trip_code # last.tripCode
    /\ \E m \in db.memories : m.trip_code = last.tripCode /\ m.importance < 7

MaintenanceReturned ==
    \/ last.op = "cleanupTtlAndVectors" /\ last.result = "ok"
    \/ last.op = "pruneLowImportanceMemories" /\ last.result = "ok"
    \/ last.op = "startup" /\ last.result = "ok"

\* C3: in the state right after cleanupTtlAndVectors or
\* pruneLowImportanceMemories has returned (on its own or as the cleanup of
\* server startup), whatever the vector mode of the process, every row of
\* memory_vec has its row in memories.
C3_NoOrphanAfterMaintenance ==
    MaintenanceReturned =>
        \A id \in DOMAIN db.memory_vec : \E m \in db.memories : m.memory_id = id

\* a maintenance call that found a vector row without memory and removed it
C3_Witness ==
    /\ MaintenanceReturned
    /\ last.removedVectors >= 1
    /\ "gone" \notin DOMAIN db.memory_vec
    /\ "old1" \in DOMAIN db.memory_vec

\* C4: every memory with a trip_code has its row in users and every memory
\* with a room_id has its row in rooms, and POST /api/memories never fails
\* on those foreign keys: the rows are upserted ahead of the INSERT.
C4_MemoryOwnersExist ==
    /\ \A m \in db.memories :
          /\ m.trip_code # NULL => m.trip_code \in DOMAIN db.users
          /\ m.room_id # NULL => m.room_id \in DOMAIN db.rooms
    /\ (last.op = "POST /api/memories" /\ last.status # 400) => ~last.fkFailed

\* a memory stored for a user nobody had announced: its users row exists
C4_Witness ==
    /\ last.op = "POST /api/memories"
    /\ last.status = 200
    /\ last.body.trip_code = "u2"
    /\ \E m \in db.memories : m.memory_id = last.memory_id /\ m.trip_code = "u2"
    /\ db.users["u2"].last_display_name = ""
    /\ \E m \in db.memories : m.room_id = "r1"

\* Math.floor of the number, pulled into [1, 10]; 5 for what is no number
Clamped(raw) ==
    IF raw.kind # "num" THEN 5
    ELSE IF raw.halves < 2 THEN 1
    ELSE IF raw.halves >= 22 THEN 10
    ELSE raw.halves \div 2

TextItems(items) == {i \in 1..Len(items) : items[i].hasText}

\* C7: once initDb has completed, every stored memory has an importance in
\* 1..10 (rows of a legacy table included); POST /api/memories never fails
\* on the importance CHECK and stores the clamped value of what it was
\* given; the reply pipeline stores one importance in 1..10 per extracted
\* item with text.
C7_ImportanceInRange ==
    /\ proc.dbInitialized => \A m \in db.memories : m.importance \in 1..10
    /\ (last.op = "POST /api/memories" /\ last.status # 400) =>
          /\ ~last.checkFailed
          /\ last.status = 200
          /\ \E m \in db.memories :
                /\ m.memory_id = last.memory_id
                /\ m.importance = Clamped(last.body.importance)
    /\ (last.op = "POST /api/reply/deepseek" /\ last.status = 200) =>
          /\ Len(last.stored) = Cardinality(TextItems(last.rawItems))
          /\ \A i \in 1..Len(last.stored) : last.stored[i] \in 1..10

\* importance 12 posted and stored as 10, next to the migrated legacy rows
\* (12 stored as 10, 0 stored as 1)
C7_Witness ==
    /\ last.op = "POST /api/memories"
    /\ last.status = 200
    /\ last.body.importance = Num(24)
    /\ \E m \in db.memories : m.memory_id = last.memory_id /\ m.importance = 10
    /\ \E m \in db.memories : m.memory_id = "old1" /\ m.importance = 10
    /\ \E m \in db.memories : m.memory_id = "old2" /\ m.importance = 1
    /\ proc.migrations = 1

\* C8: in a process whose initDb has succeeded, no step (initDb called
\* again, a repository's first access, any request) loads the extension,
\* runs initDb's body or a migration, changes the vector mode or the schema,
\* or clears the initialized flag; initDb called again reports the status it
\* reported before.
C8_InitDbIdempotent ==
    [][ (proc.dbInitialized /\ restarts' = restarts) =>
          /\ proc'.dbInitialized
          /\ proc'.extLoads = proc.extLoads
          /\ proc'.initRuns = proc.initRuns
          /\ proc'.migrations = proc.migrations
          /\ proc'.vectorMode = proc.vectorMode
          /\ proc'.vectorExtensionTried = proc.vectorExtensionTried
          /\ db'.memoriesTable = db.memoriesTable
          /\ db'.profileSchema = db.profileSchema
          /\ db'.vecTable = db.vecTable
          /\ db'.vecParent = db.vecParent
          /\ (last'.op = "initDb" =>
                /\ last'.result = "ok"
                /\ last'.info = last'.before
                /\ last'.info.initialized
                /\ db' = db) ]_vars

\* initDb returned for the second time in a process that had loaded the
\* extension and migrated a legacy table on the first call
C8_Witness ==
    /\ last.op = "initDb"
    /\ last.before.initialized
    /\ last.result = "ok"
    /\ proc.initRuns = 1
    /\ proc.extLoads = 1
    /\ proc.migrations = 1

\* C9: in a process in fallback mode searchMemories returns null, whatever
\* the database holds, and POST /api/memories/search answers 501.
C9_FallbackSearchUnsupported ==
    /\ (last.op = "searchMemories" /\ last.mode # "vec0") => last.result = "null"
    /\ (last.op = "POST /api/memories/search" /\ last.mode # "vec0") =>
          last.status = 501

\* C10: in a process in accelerated mode searchMemories with a query
\* embedding of one number and topK = 1 returns a list.
C10_AcceleratedSearchNeverThrows ==
    (last.op = "searchMemories" /\ last.mode = "vec0") => last.result = "list"

\* C11: in a process that has run initDb, however often and whether the
\* runs threw or completed, db.loadExtension has been called once if
\* SQLITE_VECTOR_EXTENSION_PATH is set and never if it is not, and the
\* attempt is marked as made; no process calls it a second time.
C11_ExtensionLoadedOnce ==
    /\ proc.extLoads <= 1
    /\ proc.initRuns >= 1 =>
          /\ proc.vectorExtensionTried
          /\ proc.extLoads = IF env.extPath = "unset" THEN 0 ELSE 1

\* initDb threw in its migration, was called again and threw again, in a
\* process whose extension load had failed: still one load
C11_Witness ==
    /\ last.op = "initDb"
    /\ last.result = "throws"
    /\ proc.initRuns = 2
    /\ proc.extLoads = 1
    /\ env.extPath = "bad"
    /\ ~proc.dbInitialized

\* C12: an initDb that ran without an extension path, with a path whose
\* load throws, or with a throwing CREATE VIRTUAL TABLE completes, reports
\* the fallback mode and leaves memory_vec as the JSON table.
C12_InitFallsBackToJson ==
    (last.op = "initDb"
       /\ (env.extPath \in {"unset", "bad"} \/ last.vecCreateThrew)) =>
        /\ last.result = "ok"
        /\ last.info.vectorMode = "json_fallback"
        /\ last.info.initialized
        /\ db.vecTable = "json"

CleanupReturned == last.op = "cleanupTtlAndVectors" /\ last.result = "ok"

\* C13: right after cleanupTtlAndVectors returns, the memories are those it
\* found minus exactly the ones whose ttl_days had elapsed, memory_vec holds
\* exactly the rows it found whose memory is still stored, and the two
\* counts returned are the numbers of memories and of memory_vec rows that
\* are gone.
C13_CleanupRemovesAndCounts ==
    CleanupReturned =>
        /\ db.memories = {m \in last.before : ~Elapsed(m, now)}
        /\ VecIds(db) = last.vecBefore \cap MemoryIds(db)
        /\ last.removedMemories
              = Cardinality(last.before) - Cardinality(db.memories)
        /\ last.removedVectors
              = Cardinality(last.vecBefore) - Cardinality(VecIds(db))

InsertReturned == last.op = "insertMemory" /\ last.result = "ok"
InsertThrew == last.op = "insertMemory" /\ last.result = "throws"
WithEmbedding(payload) ==
    payload.embedding.isArray /\ Len(payload.embedding.values) > 0

\* C14: right after insertMemory has thrown, rooms, users, user_profile,
\* memories and memory_vec are what they were when its transaction began:
\* no room or user row was created or refreshed, no memory and no vector
\* row was added.
C14_InsertAllOrNothing ==
    InsertThrew => Rows(db) = last.before

\* an insert that failed on the id of a stored memory after its statements
\* were prepared: its user is unknown to the store and its room, seen before,
\* keeps the older last_seen_at
C14_Witness ==
    /\ InsertThrew
    /\ last.prepared
    /\ last.payload.memory_id \in MemoryIds(db)
    /\ last.payload.importance \in 1..10
    /\ last.payload.trip_code = "u2"
    /\ "u2" \notin DOMAIN db.users
    /\ last.payload.room_id = "r1"
    /\ "r1" \in DOMAIN db.rooms
    /\ db.rooms["r1"] < now

\* C15: in either vector mode, insertMemory with a payload that breaks no
\* constraint (new id, importance in 1..10) leaves a memory_vec row holding
\* the embedding if a non-empty one was given and leaves memory_vec as it
\* was otherwise; and every memory_vec row the program wrote belongs to a
\* stored memory that was inserted with a non-empty embedding.
C15_VectorIffEmbedding ==
    /\ (last.op = "insertMemory"
          /\ last.payload.memory_id \notin {m.memory_id : m \in last.before.memories}
          /\ last.payload.importance \in 1..10) =>
          /\ InsertReturned
          /\ IF WithEmbedding(last.payload)
             THEN /\ last.payload.memory_id \in VecIds(db)
                  /\ db.memory_vec[last.payload.memory_id] = last.payload.embedding.values
             ELSE db.memory_vec = last.before.memory_vec
    /\ \A id \in VecIds(db) \ VecIds(CurrentDb) :
          /\ id \in MemoryIds(db)
          /\ \E payload \in InsertPayloads :
                payload.memory_id = id /\ WithEmbedding(payload)

\* what a prune with threshold k (undefined counts as 1) leaves of mems
KeptByPrune(mems, k) ==
    {m \in mems :
        ~(m.trip_code # NULL
            /\ m.importance < (IF IsFinite(k) THEN Floor(k) ELSE 1))}

\* C16: while a consolidation pass goes from one user to the next nothing
\* is pruned (no memory disappears, the prune count stays 0); the step that
\* ends the pass comes after the last user's summarizer has settled and
\* prunes exactly once, also when every user failed; a pass that finds no
\* user group prunes once and ends at once.
C16_PruneOnceAfterLastUser ==
    [][ /\ (pass.pc = "awaiting" /\ pass'.pc = "awaiting") =>
              /\ pass'.prunes = 0
              /\ db.memories \subseteq db'.memories
        /\ (pass.pc = "awaiting" /\ pass'.pc = "idle") =>
              /\ pass.index = Len(pass.grouped)
              /\ PassEnded'
              /\ last'.prunes = 1
              /\ db'.memories = KeptByPrune(db.memories, pass.pruneBelowImportance)
        /\ (pass.pc = "idle" /\ pass'.pc = "idle" /\ PassEnded' /\ last' # last) =>
              /\ last'.groups = << >>
              /\ last'.prunes = 1
              /\ db'.memories
                    = KeptByPrune(db.memories, last'.report.prune_below_importance) ]_vars

\* a pass in which every user's summarizer failed has pruned a memory
C16_Witness ==
    /\ PassEnded
    /\ Len(last.groups) >= 1
    /\ last.report.skipped_users = Len(last.groups)
    /\ last.report.updated_users = 0
    /\ last.prunes = 1
    /\ last.report.pruned_memories >= 1

\* C17: in the report of a pass processed_users = updated_users +
\* skipped_users = number of groups read at the start, errors lists, in
\* group order, exactly the users whose digest was not written, one entry
\* each, and pruned_memories / pruned_vectors are the numbers of memories
\* and of vector rows without memory that the prune of the last step deleted.
C17_ReportAddsUp ==
    [][ /\ PassEnded =>
              /\ last.report.processed_users = Len(last.groups)
              /\ last.report.updated_users + last.report.skipped_users
                    = last.report.processed_users
              /\ last.report.updated_users = Cardinality(DOMAIN last.written)
              /\ Len(last.report.errors) = last.report.skipped_users
              /\ last.report.errors
                    = SelectSeq(last.groups, LAMBDA t : t \notin DOMAIN last.written)
        /\ (PassEnded' /\ last' # last) =>
              /\ last'.report.pruned_memories
                    = Cardinality(db.memories) - Cardinality(db'.memories)
              /\ last'.report.pruned_vectors = Cardinality(OrphanVectors(db)) ]_vars

\* a pass over two users: the first updated, the second skipped, one memory
\* pruned
C17_Witness ==
    /\ PassEnded
    /\ last.groups = << "abc", "u2" >>
    /\ last.report.processed_users = 2
    /\ last.report.updated_users = 1
    /\ last.report.errors = << "u2" >>
    /\ DOMAIN last.written = {"abc"}
    /\ last.report.pruned_memories = 1

\* C18: while a pass awaits a summarizer, exactly one call is in flight, the
\* one for the user at the loop index; every user before it has settled
\* (its digest is stored, or it has its error entry, never both) and no
\* later user has been started.
C18_SummarizerCallsSequential ==
    pass.pc = "awaiting" =>
        /\ pass.inFlight = 1
        /\ pass.index \in 1..Len(pass.grouped)
        /\ pass.processedUsers = pass.index
        /\ pass.updatedUsers + pass.skippedUsers = pass.index - 1
        /\ Len(pass.errors) = pass.skippedUsers
        /\ DigestsPersisted(pass.written, db)
        /\ \A i \in 1..Len(pass.grouped) :
              LET t == pass.grouped[i].tripCode
                  written == t \in DOMAIN pass.written
                  failed == \E j \in 1..Len(pass.errors) : pass.errors[j] = t
              IN IF i < pass.index THEN written # failed
                 ELSE ~written /\ ~failed

\* the second user's call is in flight after the first user's digest was stored
C18_Witness ==
    /\ pass.pc = "awaiting"
    /\ pass.index = 2
    /\ Len(pass.grouped) = 2
    /\ pass.grouped[1].tripCode \in DOMAIN pass.written
    /\ pass.grouped[1].tripCode \in DOMAIN db.user_profile
    /\ pass.inFlight = 1

IsDigest(x) == "highlights" \in DOMAIN x

NoRepeatNoBlank(list) ==
    /\ \A i \in 1..Len(list) : list[i] # ""
    /\ \A i, j \in 1..Len(list) :
          i < j => ToLowerCase(list[i]) # ToLowerCase(list[j])

WellFormedDigest(dg) ==
    /\ Len(dg.highlights) <= 12
    /\ Len(dg.stable_preferences) <= 12
    /\ Len(dg.ongoing_threads) <= 10
    /\ NoRepeatNoBlank(dg.highlights)
    /\ NoRepeatNoBlank(dg.stable_preferences)
    /\ \A i \in 1..Len(dg.ongoing_threads) :
          ~(dg.ongoing_threads[i].topic = "" /\ dg.ongoing_threads[i].note = "")

\* C19: every digest in user_profile, and every digest a pass reports as
\* written, has at most 12 highlights and 12 stable_preferences, neither
\* with a blank entry or two entries equal but for case, and at most 10
\* ongoing_threads, each with a topic or a note.
C19_DigestsNormalized ==
    /\ \A t \in DOMAIN db.user_profile :
          IsDigest(db.user_profile[t].memory_digest_json)
            => WellFormedDigest(db.user_profile[t].memory_digest_json)
    /\ pass.pc = "awaiting" =>
          \A t \in DOMAIN pass.written : WellFormedDigest(pass.written[t])
    /\ PassEnded =>
          \A t \in DOMAIN last.written : WellFormedDigest(last.written[t])

\* the digest stored from a reply with 15 distinct highlights, 12 threads
\* and 15 distinct preferences: 12, 10 and 12 entries
C19_Witness ==
    /\ PassEnded
    /\ \E i \in 1..Len(last.groups) :
          /\ ~last.responses[i].threw
          /\ last.responses[i].content.text.value = JsonObject(RawDigestLong)
          /\ LET dg == db.user_profile[last.groups[i]].memory_digest_json
             IN /\ Len(dg.highlights) = 12
                /\ dg.highlights[1] = "Tea"
                /\ Len(dg.ongoing_threads) = 10
                /\ Len(dg.stable_preferences) = 12

\* a reply that is no JSON, with or without braces in it
Malformed(outcome) ==
    /\ ~outcome.threw
    /\ outcome.content.present
    /\ outcome.content.text.kind \in {"noBraces", "badBraces"}

EmptyDigest(t) ==
    [ highlights |-> << >>, ongoing_threads |-> << >>,
      stable_preferences |-> << >>, updated_at |-> t ]

\* C20: the step in which a malformed reply arrives for a user adds no
\* error entry for that user, counts the user as updated, and leaves the
\* empty digest in the user's row, whatever digest the row held before.
C20_MalformedReplyGivesEmptyDigest ==
    [][ (pass.pc = "awaiting" /\ pass' # pass) =>
          LET t == pass.grouped[pass.index].tripCode
              ended == pass'.pc = "idle"
              responses == IF ended THEN last'.responses ELSE pass'.responses
              errors == IF ended THEN last'.report.errors ELSE pass'.errors
              updated == IF ended THEN last'.report.updated_users
                         ELSE pass'.updatedUsers
              written == IF ended THEN last'.written ELSE pass'.written
          IN Malformed(responses[pass.index]) =>
                /\ \A j \in 1..Len(errors) : errors[j] # t
                /\ updated = pass.updatedUsers + 1
                /\ t \in DOMAIN written
                /\ written[t] = EmptyDigest(pass.now)
                /\ db'.user_profile[t].memory_digest_json = EmptyDigest(pass.now) ]_vars

\* a pass ended whose reply for "abc" was no JSON: "abc" is updated, there
\* is no error, and the row of "abc" holds the empty digest
C20_Witness ==
    /\ PassEnded
    /\ Len(last.groups) >= 1
    /\ last.groups[1] = "abc"
    /\ Malformed(last.responses[1])
    /\ last.report.errors = << >>
    /\ last.report.updated_users = Len(last.groups)
    /\ db.user_profile["abc"].memory_digest_json = EmptyDigest(now)

(***************************************************************************)
(* The profile merge                                                        *)
(***************************************************************************)
\* the request that ran last was a setprofile message whose fragment was
\* merged and written
Merged == last.op = "POST /api/profile/from-message" /\ last.updated
ScalarKeys == {"common_name", "language", "location", "identity"}
ListKeys == {"likes", "dislikes"}
\* the stored profile the merge read, field by field ({} where it is no object)
OldOf(l) == IF l.oldProfile.type = "object" THEN l.oldProfile ELSE EmptyProfileObject
IsText(v) == v \notin {NULL, NotAString}

\* C21 as the spec words it: a scalar of the fragment that is null keeps the
\* old value whatever it is, one that is not null replaces it
C21_ScalarKeptOrTaken ==
    Merged =>
      \A k \in ScalarKeys :
         last.profile_json[k] = IF last.fragment[k] = NULL THEN OldOf(last)[k]
                                ELSE last.fragment[k]

\* C21: merge takes every scalar (common_name, language, location, identity)
\* the fragment gives a non-null value for; where the fragment gives null the
\* old value stays, trimmed if it is a non-blank string, and is null if the
\* old value is null, blank or no string
C21_ScalarKeptTrimmedOrTaken ==
    Merged =>
      \A k \in ScalarKeys :
         LET old == OldOf(last)[k]
             new == last.fragment[k]
             out == last.profile_json[k]
         IN /\ new # NULL => out = new
            /\ (new = NULL /\ IsText(old) /\ Trim(old) # "") => out = Trim(old)
            /\ (new = NULL /\ ~(IsText(old) /\ Trim(old) # "")) => out = NULL

C21_Witness ==
    /\ Merged
    /\ last.oldProfile = UntidyProfile
    /\ last.fragment.common_name = NULL /\ last.profile_json.common_name = "Al"
    /\ last.fragment.language = "en" /\ last.profile_json.language = "en"
    /\ last.fragment.location = NULL /\ last.profile_json.location = NULL

\* the string entries of a stored list, and the list the claim describes:
\* trimmed, without blanks and noise, each lower-cased spelling once
TextEntries(value) ==
    IF value.isArray THEN SelectSeq(value.items, LAMBDA x : x # NotAString) ELSE << >>
Trimmed(list) == [i \in 1..Len(list) |-> Trim(list[i])]
\* the noise the claim names: bare pronouns, a bare @name, pronoun@name
IsNoise(x) == ToLowerCase(x) \in {"ni", "wo", "ta", "you", "me"} \/ x \in {"@bot", "ni@liam"}
RECURSIVE FirstSpellings(_)
FirstSpellings(list) ==
    IF list = << >> THEN << >>
    ELSE LET front == SubSeq(list, 1, Len(list) - 1)
             x == list[Len(list)]
         IN IF \E j \in 1..Len(front) : ToLowerCase(front[j]) = ToLowerCase(x)
            THEN FirstSpellings(front)
            ELSE Append(FirstSpellings(front), x)
UnionOfLists(old, new) ==
    FirstSpellings(SelectSeq(Trimmed(TextEntries(old) \o new),
                             LAMBDA x : x # "" /\ ~IsNoise(x)))

\* C22: merged likes (and dislikes) are the old entries followed by the
\* fragment's, trimmed, without blank entries and pronoun or mention noise,
\* each spelling once whatever its case, the first occurrence kept as
\* written; no noise entry is in the result
C22_ListsUnionedCleaned ==
    Merged =>
      \A k \in ListKeys :
         LET out == last.profile_json[k]
         IN /\ out.isArray
            /\ out.items = UnionOfLists(OldOf(last)[k], last.fragment[k])
            /\ \A i \in 1..Len(out.items) : ~IsNoise(out.items[i])

C22_Witness ==
    /\ Merged
    /\ last.oldProfile = UntidyProfile
    /\ last.fragment.likes = << "tea", "Jazz" >>
    /\ last.profile_json.likes.items = << "Tea", "Jazz" >>

\* C23: merging the fragment a second time, with the same display name and
\* time, into the profile the merge returned gives that profile again
C23_MergeTwiceSame ==
    Merged =>
      mergeProfile(last.profile_json, last.fragment, last.body.display_name, last.now)
        = last.profile_json

C23_Witness ==
    /\ Merged
    /\ last.oldProfile = UntidyProfile
    /\ Len(last.fragment.likes) >= 2
    /\ last.profile_json # [last.oldProfile EXCEPT !.display_name = last.body.display_name,
                                                  !.updated_at = << last.now >>]

\* the fragment names nothing: every scalar null, both lists empty
EmptyFragment(f) ==
    /\ \A k \in ScalarKeys : f[k] = NULL
    /\ \A k \in ListKeys : f[k] = << >>
\* the fields of a stored profile other than display_name and updated_at
\* that are present with a value
Present(profile, k) ==
    CASE k \in ListKeys -> profile[k].isArray
      [] OTHER -> profile[k] # NULL

\* C24 as the spec words it: an empty fragment leaves every field of any
\* stored profile, except display_name and updated_at, as it was
C24_EmptyFragmentKeepsAnyProfile ==
    (Merged /\ EmptyFragment(last.fragment)) =>
      \A k \in ScalarKeys \cup ListKeys \cup {"other"} :
         Present(OldOf(last), k) => last.profile_json[k] = OldOf(last)[k]

\* a profile as the merge writes it: scalars null or trimmed non-blank
\* strings, both lists arrays of trimmed non-blank strings without noise and
\* without a spelling twice, no key of its own
Tidy(profile) ==
    /\ profile.type = "object"
    /\ profile.other = NULL
    /\ \A k \in ScalarKeys :
          profile[k] = NULL \/ (IsText(profile[k]) /\ Trim(profile[k]) = profile[k]
                                /\ profile[k] # "")
    /\ \A k \in ListKeys :
          /\ profile[k].isArray
          /\ profile[k].items = UnionOfLists(profile[k], << >>)

\* C24: merging an empty fragment into a stored profile that is as the
\* merge writes profiles returns it unchanged except for display_name and
\* updated_at
C24_EmptyFragmentKeepsTidyProfile ==
    (Merged /\ EmptyFragment(last.fragment) /\ Tidy(last.oldProfile)) =>
      last.profile_json = [last.oldProfile EXCEPT
                             !.display_name = last.body.display_name,
                             !.updated_at = << last.now >>]

C24_Witness ==
    /\ Merged
    /\ EmptyFragment(last.fragment)
    /\ Tidy(last.oldProfile)
    /\ last.oldProfile.common_name = "Al"
    /\ last.oldProfile.likes.items # << >>
    /\ last.oldProfile.display_name # last.body.display_name
    /\ last.oldProfile.updated_at # << last.now >>
    /\ last.profile_json.common_name = "Al"

(***************************************************************************)
(* The importance clamps                                                    *)
(***************************************************************************)
Clamps == last.op = "clamp"
\* x <= y as JavaScript compares numbers; NaN compares with nothing
LessEq(x, y) ==
    CASE x.kind = "nan" \/ y.kind = "nan" -> FALSE
      [] x.kind = "inf" -> x.sign = -1 \/ y = x
      [] y.kind = "inf" -> y.sign = 1
      [] OTHER -> x.halves <= y.halves
InScale(raw) == IsFinite(raw) /\ raw.halves \in { 2 * n : n \in minImportance..maxImportance }

\* C25 as the spec words it: for all inputs, of both clamps, the result is in
\* [1,10], x <= y gives clamp(x) <= clamp(y), and clamp(clamp(x)) = clamp(x)
C25_ClampAllInputs ==
    Clamps =>
      /\ \A i \in 1..2 : /\ last.clamped[i] \in minImportance..maxImportance
                          /\ InScale(last.threshold[i])
      /\ LessEq(last.x, last.y) =>
            /\ last.clamped[1] <= last.clamped[2]
            /\ LessEq(last.threshold[1], last.threshold[2])
      /\ clampImportance(Int2Raw(last.clamped[1])) = last.clamped[1]
      /\ toImportanceThreshold(last.threshold[1], last.fallback) = last.threshold[1]

\* C25: for all finite inputs, of both clamps, the result is in [1,10],
\* x <= y gives clamp(x) <= clamp(y), and clamp(clamp(x)) = clamp(x);
\* clampImportance is in [1,10] and idempotent for every input
C25_ClampFiniteInputs ==
    Clamps =>
      /\ last.clamped[1] \in minImportance..maxImportance
      /\ clampImportance(Int2Raw(last.clamped[1])) = last.clamped[1]
      /\ IsFinite(last.x) =>
            /\ InScale(last.threshold[1])
            /\ toImportanceThreshold(last.threshold[1], last.fallback) = last.threshold[1]
      /\ (IsFinite(last.x) /\ IsFinite(last.y) /\ LessEq(last.x, last.y)) =>
            /\ last.clamped[1] <= last.clamped[2]
            /\ LessEq(last.threshold[1], last.threshold[2])

C25_Witness ==
    /\ Clamps
    /\ last.x = Num(-3) /\ last.y = Num(23)
    /\ last.clamped = << 1, 10 >>
    /\ last.threshold = << Int2Raw(1), Int2Raw(10) >>

(***************************************************************************)
(* Numeric input that is no finite number                                  *)
(***************************************************************************)
\* C26: a numeric input that is not a finite number raises no error and is
\* replaced by the configured default of its parameter, not by a clamp
\* bound: a memory posted with such an importance is stored with the default
\* importance, and a consolidation asked with such a prune floor prunes with
\* and reports a number of the scale that is neither 1 nor 10
C26_NonFiniteInputGetsDefault ==
    /\ (last.op = "POST /api/memories" /\ last.status = 200
          /\ ~IsFinite(last.body.importance)) =>
          \A m \in db.memories :
             m.memory_id = last.memory_id => m.importance = defaultImportance
    /\ (last.op = "consolidated" /\ ~IsFinite(last.body.prune_below_importance)) =>
          /\ last.status = 200
          /\ InScale(last.report.prune_below_importance)
          /\ Floor(last.report.prune_below_importance)
                \notin {minImportance, maxImportance}


(***************************************************************************)
(* Claims about the memories migration (SpecMigrate)                       *)
(***************************************************************************)
\* an initDb call that rebuilt the memories table
MigrationStep ==
    /\ last'.op = "initDb"
    /\ proc'.migrations = proc.migrations + 1

IdsOf(memories) == { m.memory_id : m \in memories }

IntoScale(importance) ==
    IF importance < 1 THEN 1 ELSE IF importance > 10 THEN 10 ELSE importance

MigrationThrew ==
    /\ last'.op = "initDb"
    /\ last'.result = "throws"

\* C28: the foreign_keys setting is the same after the migration as before
\* it, whether its transaction commits or throws; when it throws, the
\* memories schema, its rows and the vectors are as before and neither
\* memories_legacy nor memory_vec_backup exists.
C28_MigrationRestoresForeignKeysAndRollsBack ==
    [][/\ db'.foreign_keys = db.foreign_keys
       /\ db'.scratchTables = {}
       /\ MigrationThrew =>
             /\ db'.memoriesTable = db.memoriesTable
             /\ db'.memories = db.memories
             /\ db'.vecTable = db.vecTable
             /\ db'.vecParent = db.vecParent
             /\ db'.memory_vec = db.memory_vec]_vars

\* initDb threw on a database of the earlier data layer, which is as it was
C28_Witness ==
    /\ last.op = "initDb"
    /\ last.result = "throws"
    /\ db.memoriesTable = LegacyMemoriesTable
    /\ db.memories = LegacyVecDb.memories
    /\ db.vecTable = "vec0"
    /\ db.foreign_keys
    /\ db.scratchTables = {}
    /\ proc.migrations = 0

\* a step in which the body of initDb ran
InitStep == proc'.initRuns = proc.initRuns + 1

\* the migration transaction was started: it committed, or it threw and left
\* the process uninitialized
MigrationAttempted ==
    \/ proc'.migrations = proc.migrations + 1
    \/ ~proc'.dbInitialized

Triggers(table) ==
    table.exists /\ (table.room_notnull \/ table.importance_check # "1..10")

\* C29: initDb runs the memories migration exactly when the memories table it
\* finds has room_id NOT NULL or an importance constraint other than 1..10: a
\* database without the table or with the current table never triggers it,
\* and after a migration no later initialization, in any process, finds
\* anything to migrate.
C29_MigrationDecidedFromLiveSchema ==
    [][/\ InitStep => (MigrationAttempted <=> Triggers(db.memoriesTable))
       /\ (proc'.migrations = proc.migrations + 1) => ~Triggers(db'.memoriesTable)
       /\ (db.memoriesTable.exists /\ ~Triggers(db.memoriesTable))
             => ~Triggers(db'.memoriesTable)]_vars

\* a later process initialized the migrated database without migrating
C29_Witness ==
    /\ restarts >= 1
    /\ proc.dbInitialized
    /\ proc.initRuns = 1
    /\ proc.migrations = 0
    /\ db.memoriesTable = CurrentMemoriesTable
    /\ \E m \in db.memories : m.memory_id = "old1" /\ m.importance = 10

(***************************************************************************)
(* Claims about rejected requests (SpecProfile)                            *)
(***************************************************************************)
\* the requests the routes turn away for what they lack, told from the
\* request alone
RejectedForValidation(l) ==
    \/ /\ l.op = "POST /api/memories"
       /\ ~l.body.hasText
    \/ /\ l.op = "POST /api/ingest-message"
       /\ l.trip_code = NULL \/ l.room_id = NULL \/ l.display_name = ""
    \/ /\ l.op = "POST /api/profile/upsert"
       /\ l.trip_code = NULL
    \/ /\ l.op = "POST /api/profile/from-message"
       /\ \/ l.body.trip_code = NULL
          \/ l.body.display_name \in {NULL, NotAString, ""}
          \/ ~l.body.message_text.isString
          \/ ~l.body.message_text.command
          \/ l.body.message_text.rest.chars = 0
          \/ l.body.message_text.rest.chars > maxInputChars

\* C30: a memory insert without text, a heartbeat without trip_code or
\* without room_id or display_name, a profile overwrite without trip_code and
\* a profile-from-message request that lacks a field, is no setprofile command,
\* has no content or too long a content leave rooms, users, profiles, memories
\* and vectors as they were.
C30_RejectedRequestWritesNothing ==
    [][RejectedForValidation(last') => Rows(db') = Rows(db)]_vars

\* a profile-from-message request with too long a content was answered and
\* its sender is not among the users
C30_Witness ==
    /\ last.op = "POST /api/profile/from-message"
    /\ last.body.message_text.isString
    /\ last.body.message_text.command
    /\ last.body.message_text.rest.chars > maxInputChars
    /\ last.reason = "profile_content_too_long"
    /\ last.body.trip_code \notin DOMAIN db.users

(***************************************************************************)
(* Claims about the store under reads, passes and maintenance (SpecRepo)   *)
(***************************************************************************)
\* the handler of POST /api/memories/consolidate read its groups in this step
GroupedRead ==
    /\ pass.pc = "idle"
    /\ \/ pass'.pc = "awaiting"
       \/ last'.op = "consolidated"

GroupedReadBody == IF pass'.pc = "awaiting" THEN pass'.body ELSE last'.body

GroupedReadResult == IF pass'.pc = "awaiting" THEN pass'.grouped ELSE << >>

\* the arguments the route hands to listMemoriesGroupedByTripForDigest; an
\* undefined one takes the parameter's default
ArgumentOr(raw, default) == IF IsFinite(raw) THEN Floor(raw) ELSE default

TtlExpired(m, t) ==
    m.ttl_days # NullInt /\ m.created_at + m.ttl_days[1] * DaySeconds < t

EligibleFor(d, u, min, t) ==
    { m \in d.memories :
        m.trip_code = u /\ m.importance >= min /\ ~TtlExpired(m, t) }

RankedBefore(a, b) ==
    \/ a.importance > b.importance
    \/ a.importance = b.importance /\ a.last_used_at > b.last_used_at
    \/ /\ a.importance = b.importance /\ a.last_used_at = b.last_used_at
       /\ a.created_at > b.created_at

GroupsAsClaimed(g, d, min, cap, t) ==
    LET users == { u \in { m.trip_code : m \in d.memories } \ {NULL} :
                     EligibleFor(d, u, min, t) # {} }
    IN /\ { g[i].tripCode : i \in DOMAIN g } = users
       /\ Len(g) = Cardinality(users)
       /\ \A i \in DOMAIN g :
            LET items == g[i].items
                eligible == EligibleFor(d, g[i].tripCode, min, t)
                held == { items[j] : j \in DOMAIN items }
            IN /\ items # << >>
               /\ held \subseteq eligible
               /\ Len(items) = Cardinality(held)
               /\ Len(items) <= cap
               /\ Len(items) = cap \/ held = eligible
               /\ \A j, k \in DOMAIN items : j < k => ~RankedBefore(items[k], items[j])
               /\ \A m \in eligible \ held : \A j \in DOMAIN items :
                     ~RankedBefore(m, items[j])

\* C31: the grouped list has one group for every user with an eligible
\* memory (owned, importance at least minImportance, not TTL-expired) and no
\* other; a group holds only its user's eligible memories, is not empty, has
\* at most maxItemsPerUser of them, and these are the first ones by
\* importance, last_used_at, created_at, each descending.
C31_GroupedListPerUserCappedOrdered ==
    [][GroupedRead =>
         GroupsAsClaimed(GroupedReadResult, db,
            ArgumentOr(toImportanceThreshold(GroupedReadBody.source_min_importance,
                                             Undefined), 1),
            ArgumentOr(toPositiveLimitWithMax(GroupedReadBody.source_max_items_per_user,
                                              Undefined, 200), 60),
            now)]_vars

\* a pass read one memory of "abc" where two are eligible, and none of "u2"
C31_Witness ==
    /\ pass.pc = "awaiting"
    /\ last.op = "POST /api/memories/consolidate"
    /\ pass.body.source_max_items_per_user = Num(2)
    /\ Len(pass.grouped) = 1
    /\ pass.grouped[1].tripCode = "abc"
    /\ Len(pass.grouped[1].items) = 1
    /\ Cardinality(EligibleFor(db, "abc", 5, now)) = 2
    /\ \E m \in db.memories : m.trip_code = "u2"

(***************************************************************************)
(* Claims about the similarity search (Spec)                               *)
(***************************************************************************)
DistanceTo(query, id) ==
    IF db.memory_vec[id][1] >= query[1] THEN db.memory_vec[id][1] - query[1]
    ELSE query[1] - db.memory_vec[id][1]

\* the memory of a vector row that the search may return
LiveHit(id, roomId, tripCode) ==
    \E m \in db.memories :
        /\ m.memory_id = id
        /\ m.room_id = roomId
        /\ m.trip_code = NULL \/ (tripCode # NULL /\ m.trip_code = tripCode)

\* C32: in accelerated mode searchMemories returns a list of at most topK
\* rows in distance order, each with its distance: the vector hits among the
\* topK nearest whose memory exists, is of the room, and is userless or of
\* the user asked for; a hit without memory is left out and nothing throws.
C32_AcceleratedSearchReturnsLiveNearest ==
    (last.op = "searchMemories" /\ last.mode = "vec0") =>
        /\ last.result = "list"
        /\ Len(last.items) <= last.topK
        /\ \A i \in DOMAIN last.items :
              /\ last.items[i].memory_id \in DOMAIN db.memory_vec
              /\ LiveHit(last.items[i].memory_id, last.roomId, last.tripCode)
              /\ last.items[i].distance
                    = DistanceTo(last.queryEmbedding, last.items[i].memory_id)
        /\ \A i, j \in DOMAIN last.items :
              i < j => last.items[i].distance <= last.items[j].distance
        /\ \A id \in DOMAIN db.memory_vec :
              (/\ LiveHit(id, last.roomId, last.tripCode)
               /\ \A i \in DOMAIN last.items : last.items[i].memory_id # id)
              => Cardinality({ other \in DOMAIN db.memory_vec \ {id} :
                                 DistanceTo(last.queryEmbedding, other)
                                   <= DistanceTo(last.queryEmbedding, id) })
                   >= last.topK

StoredIds(d) == { m.memory_id : m \in d.memories }

\* a step that runs deleteExpiredMemoriesStmt
CleanupStep == last'.op \in {"cleanupTtlAndVectors", "startup"}

\* a step that runs deleteLowImportanceMemoriesStmt, and its floor
PruneStep == last'.op = "consolidated"

PruneFloor == last'.report.prune_below_importance

RawFragmentRock ==
    ProfileObject(NULL, NULL, NULL, NULL, Arr(<< "rock" >>), Arr(<< >>),
                  NullInt, NULL, NULL)
RawFragmentJazz ==
    ProfileObject("Bo", NULL, NULL, NULL, Arr(<< "Jazz", "you" >>),
                  Arr(<< "rock" >>), NullInt, NULL, NULL)

ConcurrentOutcomes ==
    { Threw,
      Replied(Content(Text("json", RawFragmentRock))),
      Replied(Content(Text("json", RawFragmentJazz))) }

ConcurrentBodies ==
    { FromMessageBody("r1", "abc", "Al",
                      Message(TRUE, Source(40, {"rock", "jazz", "you"}))),
      FromMessageBody(NULL, "abc", "Bo",
                      Message(TRUE, Source(40, {"rock", "jazz", "you"}))),
      FromMessageBody(NULL, "abc", "Bo", NoMessage) }

InitConcurrent == InitWith({RepoDb}, ProfileEnvs)

NextConcurrent ==
    \/ ServerStartup
    \/ Tick
    \/ \E body \in ConcurrentBodies : ConcurrentProfileFromMessage(body)
    \/ \E req \in InFlight(pass), o \in ConcurrentOutcomes :
          ConcurrentExtractorReturns(req, o)

SpecConcurrent == InitConcurrent /\ [][NextConcurrent]_vars

(***************************************************************************)
(* Claims about ttl_days of a posted memory (SpecTtl)                      *)
(***************************************************************************)
\* the memory the last POST /api/memories stored
PostedMemory == CHOOSE m \in db.memories : m.memory_id = last.memory_id

\* C34: a memory written through POST /api/memories has the default
\* ttl_days, null, when the request's ttl_days is absent, null or no finite
\* number, and max(1, floor(value)) when it is a finite number.
C34_PostedTtlDefaultOrFloored ==
    (last.op = "POST /api/memories" /\ last.status = 200) =>
        /\ last.body.ttl_days.kind # "num" => PostedMemory.ttl_days = NullInt
        /\ last.body.ttl_days.kind = "num" =>
              PostedMemory.ttl_days
                = << IF last.body.ttl_days.halves \div 2 >= 1
                     THEN last.body.ttl_days.halves \div 2 ELSE 1 >>

(***************************************************************************)
(* Claims about the profile row (SpecDigest)                               *)
(***************************************************************************)
\* a step of a consolidation pass that may write a digest
DigestStep == last'.op \in {"summarizer", "consolidated"}

\* a direct overwrite of a profile
ProfileStep == last'.op = "POST /api/profile/upsert"

ProfileRows(d) == DOMAIN d.user_profile

\* C35: a digest write leaves the profile_json of every user as it was and a
\* profile write leaves the memory_digest_json of every user as it was; a row
\* created by one of them holds the empty object in the other column.
C35_ProfileAndDigestIndependent ==
    [][/\ DigestStep =>
            /\ \A t \in ProfileRows(db) :
                  db'.user_profile[t].profile_json = db.user_profile[t].profile_json
            /\ \A t \in ProfileRows(db') \ ProfileRows(db) :
                  db'.user_profile[t].profile_json = [json |-> "{}"]
       /\ ProfileStep =>
            /\ \A t \in ProfileRows(db) :
                  db'.user_profile[t].memory_digest_json
                     = db.user_profile[t].memory_digest_json
            /\ \A t \in ProfileRows(db') \ ProfileRows(db) :
                  db'.user_profile[t].memory_digest_json = [json |-> "{}"]]_vars

\* the profile of "abc" was overwritten and its digest of an earlier pass is
\* still there
C35_Witness ==
    /\ last.op = "POST /api/profile/upsert"
    /\ last.status = 200
    /\ last.trip_code = "abc"
    /\ db.user_profile["abc"].profile_json = TidyProfile
    /\ db.user_profile["abc"].memory_digest_json # [json |-> "{}"]

(***************************************************************************)
(* Claims about the users row (SpecPass)                                   *)
(***************************************************************************)
\* a step of an operation that has no display name to give: a memory stored
\* without one, the digest write of a pass, a direct profile overwrite
NamelessWrite ==
    \/ /\ last'.op = "POST /api/memories"
       /\ last'.status = 200
       /\ last'.body.display_name = ""
    \/ last'.op \in {"summarizer", "consolidated"}
    \/ last'.op = "POST /api/profile/upsert" /\ last'.status = 200

\* C36: an operation that carries no display name refreshes last_seen_at of
\* its user and leaves the stored last_display_name of every user as it was.
C36_NamelessWriteKeepsDisplayName ==
    [][NamelessWrite =>
         \A t \in DOMAIN db.users :
            /\ t \in DOMAIN db'.users
            /\ db'.users[t].last_display_name = db.users[t].last_display_name
            /\ db'.users[t].last_seen_at >= db.users[t].last_seen_at]_vars

\* C37: the prune that ends a consolidation pass works on the store as it is
\* then, whatever became of the users of the pass: it deletes every
\* user-owned memory below the floor and no other, be it of a user whose
\* summary failed, left out of the summarizer's input by the source threshold
\* or the cap, or inserted while the pass was waiting for the summarizer.
C37_PruneActsOnStoreAtPruneTime ==
    [][last'.op = "consolidated" =>
         db'.memories
           = { m \in db.memories :
                 ~(/\ m.trip_code # NULL
                   /\ m.importance
                        < BoundedImportance(last'.report.prune_below_importance)) }]_vars

\* a pass that read no memory of "zed" and skipped "abc" pruned three
\* memories: the one of "abc" and of "u2" below the floor and the one "zed"
\* stored while the pass was waiting
C37_Witness ==
    /\ last.op = "consolidated"
    /\ last.groups = << "abc", "u2" >>
    /\ \E i \in DOMAIN last.report.errors : last.report.errors[i] = "abc"
    /\ last.report.pruned_memories = 3
    /\ uuid = 1
    /\ StoredIds(db) \cap {"a2", "b1", "m1"} = {}
    /\ now = 0

(***************************************************************************)
(* connectionLayer.ts: the WebSocket connection layer of the front end.    *)
(* Here proc is the closure of createHackChatConnection (ws and            *)
(* pingIntervalId, 0 for null), env is the browser (the readyState of      *)
(* every socket created, in order of creation, and the interval timers     *)
(* that are set), and last.status is the status last given to              *)
(* onStatusChange.                                                         *)
(***************************************************************************)
MaxSockets == 3

FreshConnection == [ws |-> 0, pingIntervalId |-> 0]
FreshBrowser == [sockets |-> << >>, timers |-> {}, timersSet |-> 0]

\* stopPing: clearInterval of the timer pingIntervalId names, if it names one
stopPing(p, e) ==
    IF p.pingIntervalId # 0
    THEN [p |-> [p EXCEPT !.pingIntervalId = 0],
          e |-> [e EXCEPT !.timers = @ \ {p.pingIntervalId}]]
    ELSE [p |-> p, e |-> e]

\* connect(): nothing while ws is open or connecting, else a new socket
connect ==
    /\ IF proc.ws # 0 /\ env.sockets[proc.ws] \in {"OPEN", "CONNECTING"}
       THEN /\ last' = [last EXCEPT !.op = "connect", !.socket = 0]
            /\ UNCHANGED <<proc, env>>
       ELSE /\ Len(env.sockets) < MaxSockets
            /\ env' = [env EXCEPT !.sockets = Append(@, "CONNECTING")]
            /\ proc' = [proc EXCEPT !.ws = Len(env.sockets) + 1]
            /\ last' = [op |-> "connect", socket |-> Len(env.sockets) + 1,
                        status |-> "connecting"]
    /\ UNCHANGED <<db, now, pass, restarts, uuid>>

\* disconnect(): ws.close(), ws = null, stopPing, status disconnected
disconnect ==
    /\ \E closed \in {IF proc.ws # 0 /\ env.sockets[proc.ws] \in {"OPEN", "CONNECTING"}
                       THEN [env EXCEPT !.sockets[proc.ws] = "CLOSING"]
                       ELSE env} :
       \E s \in {stopPing([proc EXCEPT !.ws = 0], closed)} :
          /\ proc' = s.p
          /\ env' = s.e
          /\ last' = [op |-> "disconnect", socket |-> proc.ws,
                      status |-> "disconnected"]
    /\ UNCHANGED <<db, now, pass, restarts, uuid>>

\* the connection of socket is established: currentSocket.onopen
SocketOpens(socket) ==
    /\ env.sockets[socket] = "CONNECTING"
    /\ env' = [env EXCEPT !.sockets[socket] = "OPEN",
                          !.timers = @ \cup {env.timersSet + 1},
                          !.timersSet = @ + 1]
    /\ proc' = [proc EXCEPT !.pingIntervalId = env.timersSet + 1]
    /\ last' = [op |-> "onopen", socket |-> socket, status |-> "connected"]
    /\ UNCHANGED <<db, now, pass, restarts, uuid>>

\* the server starts the closing handshake of an open socket: no callback
ClosingHandshakeStarts(socket) ==
    /\ env.sockets[socket] = "OPEN"
    /\ env' = [env EXCEPT !.sockets[socket] = "CLOSING"]
    /\ last' = [last EXCEPT !.op = "closing", !.socket = socket]
    /\ UNCHANGED <<proc, db, now, pass, restarts, uuid>>

\* the connection of socket is closed: currentSocket.onclose, after
\* currentSocket.onerror where the connection failed
SocketCloses(socket, failed) ==
    /\ env.sockets[socket] \in {"CONNECTING", "OPEN", "CLOSING"}
    /\ \E s \in {stopPing(proc, [env EXCEPT !.sockets[socket] = "CLOSED"])} :
          /\ env' = s.e
          /\ proc' = IF proc.ws = socket THEN [s.p EXCEPT !.ws = 0] ELSE s.p
    /\ last' = [op |-> IF failed THEN "onerror, onclose" ELSE "onclose",
                socket |-> socket, status |-> "disconnected"]
    /\ UNCHANGED <<db, now, pass, restarts, uuid>>

InitSocket ==
    /\ proc = FreshConnection
    /\ env = FreshBrowser
    /\ last = [op |-> "none", socket |-> 0, status |-> "disconnected"]
    /\ db = FreshDb
    /\ now = 0
    /\ pass = IdlePass
    /\ restarts = 0
    /\ uuid = 0

NextSocket ==
    \/ connect
    \/ disconnect
    \/ \E socket \in DOMAIN env.sockets : SocketOpens(socket)
    \/ \E socket \in DOMAIN env.sockets : ClosingHandshakeStarts(socket)
    \/ \E socket \in DOMAIN env.sockets, failed \in BOOLEAN :
          SocketCloses(socket, failed)

SpecSocket == InitSocket /\ [][NextSocket]_vars

\* the socket ws names is open
CurrentSocketOpen == proc.ws # 0 /\ env.sockets[proc.ws] = "OPEN"

\* C40: at most one ping timer is set at any time, one is set whenever the
\* current socket is open, and the close event of a socket that a newer
\* connection replaced leaves the reported status other than disconnected
\* while the newer socket is open.
C40_OnePingTimerAndLateCloseHarmless ==
    /\ Cardinality(env.timers) <= 1
    /\ CurrentSocketOpen => env.timers # {}
    /\ (CurrentSocketOpen /\ last.op \in {"onclose", "onerror, onclose"}
          /\ last.socket # proc.ws)
         => last.status # "disconnected"

(***************************************************************************)
(* Claims about overlapping profile-from-message requests (SpecConcurrent) *)
(***************************************************************************)
\* the entries of a stored list that are no noise, as the merge compares them
EntryKeys(value) ==
    IF ~value.isArray THEN {}
    ELSE { ToLowerCase(Trim(value.items[i])) :
             i \in { j \in DOMAIN value.items :
                       /\ value.items[j] # NotAString
                       /\ Trim(value.items[j]) # ""
                       /\ ~isPronounNoise(Trim(value.items[j])) } }

\* the entries of a list of the extracted fragment
FragmentKeys(list) == { ToLowerCase(list[i]) : i \in DOMAIN list }

MergedStep == last'.op = "POST /api/profile/from-message" /\ last'.updated

\* C38: requests of one user whose awaits of the extractor interleave lose
\* no update: no step takes an entry out of the stored likes or dislikes, and
\* the step in which a request merges adds the entries of its fragment to
\* what is stored then, so that when all have completed the stored lists
\* hold the entries stored before and those of every fragment.
C38_ConcurrentFromMessageLosesNoUpdate ==
    [][LET before == getProfileByTrip(db, "abc")
           after == getProfileByTrip(db', "abc")
       IN /\ EntryKeys(before.likes) \subseteq EntryKeys(after.likes)
          /\ EntryKeys(before.dislikes) \subseteq EntryKeys(after.dislikes)
          /\ MergedStep =>
               /\ FragmentKeys(last'.fragment.likes) \subseteq EntryKeys(after.likes)
               /\ FragmentKeys(last'.fragment.dislikes)
                    \subseteq EntryKeys(after.dislikes)]_vars

\* the request that began first merged last: it found the profile the other
\* request wrote during its await, and the stored likes hold the entry stored
\* before and the entries of both fragments
C38_Witness ==
    /\ last.op = "POST /api/profile/from-message"
    /\ last.updated
    /\ pass = IdlePass
    /\ last.oldProfile.updated_at # NullInt
    /\ last.now < last.oldProfile.updated_at[1]
    /\ last.fragment.likes = << "rock" >>
    /\ EntryKeys(getProfileByTrip(db, "abc").likes) = {"tea", "rock", "jazz"}
    /\ EntryKeys(getProfileByTrip(db, "abc").dislikes) = {"rock"}

(***************************************************************************)
(* Claims about the TTL predicates of listing and cleanup (SpecStore)      *)
(***************************************************************************)
CleanedUp == last.op = "cleanupTtlAndVectors" /\ last.result = "ok"

\* C39: at any instant a stored memory is either one the TTL condition of
\* the listings lets through or one the cleanup's DELETE takes, never both
\* and never neither; a cleanup deletes no memory a listing at that instant
\* would let through, and right after a cleanup no stored memory is expired.
C39_TtlPredicatesAreComplements ==
    /\ \A m \in db.memories : NotExpired(m, now) <=> ~Expired(m, now)
    /\ CleanedUp =>
         /\ \A m \in last.before : NotExpired(m, now) <=> ~Expired(m, now)
         /\ \A m \in last.before \ db.memories : ~NotExpired(m, now)
         /\ \A m \in db.memories : ~Expired(m, now)
    /\ (last.op = "listMemoriesByTrip" /\ last.result = "ok") =>
         \A i \in DOMAIN last.rows : ~Expired(last.rows[i], now)

\* a cleanup deleted an expired memory and left one whose TTL ends at this
\* very second
C39_Witness ==
    /\ CleanedUp
    /\ last.removedMemories >= 1
    /\ \E m \in db.memories :
          /\ m.ttl_days # NullInt
          /\ m.created_at = now - m.ttl_days[1] * DaySeconds
====
